---- MODULE Spec2Model ----
(***************************************************************************)
(* Model of the deterministic postprocess step of the email triage server  *)
(* (src/app/postprocess.py).                                               *)
(*                                                                         *)
(* Representation.                                                         *)
(*   - A Python str is a sequence of one-character strings.                *)
(*   - Optional[T] is a sequence of length <= 1: None is << >> and a       *)
(*     present value v is << v >>.                                         *)
(*   - A Python value that may be a float is a record [t, v, s]: t is      *)
(*     "float" (v in hundredths), "nan", "inf", "-inf", "str" (s the       *)
(*     string) or "none"; t = "raised" stands for an exception.            *)
(*   - A datetime is [day, hour, minute, off]: day counts days from        *)
(*     Monday 2024-01-29 (so day % 7 is datetime.weekday()), off is the    *)
(*     UTC offset in whole hours, None for a naive datetime.  A tzinfo is  *)
(*     its UTC offset in whole hours.                                      *)
(***************************************************************************)
EXTENDS Integers, Sequences, FiniteSets, TLC

VARIABLES
    msg,            \* GmailMessageInput: [id, threadId]
    parsed_email,   \* ParsedEmail: [from_email, subject, sent_at, internal_date]
    draft,          \* the LLMTriageOutput as the inference step returned it
    llm,            \* the same object, mutated in place by postprocess_triage
    resp,           \* outcome of the last call: None, Some(response) or Some(Raised)
    runs,           \* number of calls made on the decision
    draft_actions,          \* the ranked UI actions as the inference step returned them
    recommended_actions,    \* the same list, as sanitization leaves it
    draft_urgency,          \* the urgency assessment as the inference step returned it
    urgency_signals,        \* the same object, as postprocess leaves it
    call,           \* arguments of a direct call of a resolver function: [text, base_dt]
    ret,            \* None before a direct call, then Some([fn, value])
    llm_provider,   \* settings.llm_provider, read once when the pipeline is built
    _request_counts,    \* main._request_counts: [triage, total]
    _recent_errors,     \* main._recent_errors: the list of error records
    utc_now,        \* the reading of the clock, as a count of its ticks
    threads,        \* the worker threads of the server: [pc, req, reg, exc] each
    pending,        \* triage requests the clients have yet to send
    requests,       \* history: the number of requests that reached the handler
    recorded,       \* history: every record appended, with the request it is of
    answers,        \* history: the HTTP answers given: [req, exc, answer]
    args,           \* run_batch: the arguments [messages, concurrency, limit]
    messages,       \* run_batch: the messages, cut to the limit once it has started
    sem,            \* run_batch: the value of the semaphore, None before it is made
    tasks,          \* run_batch: the worker coroutines, [pc, res] each
    out_f,          \* the lines of the results file
    err_f,          \* the lines of the errors file
    major_counts,   \* run_batch: the Counter of major categories
    summary         \* the printed summary: None, then Some([total, ok_total, fail_total])

triageVars == <<msg, parsed_email, draft, llm, resp, runs, draft_actions, recommended_actions,
                draft_urgency, urgency_signals, call, ret>>

serverVars == <<llm_provider, _request_counts, _recent_errors, utc_now, threads, pending,
                requests, recorded, answers>>

batchVars == <<args, messages, sem, tasks, out_f, err_f, major_counts, summary>>

vars == <<triageVars, serverVars, batchVars>>

None == << >>
Some(v) == << v >>

\* ------------------------------------------------------------------------
\* Characters and Python str primitives
\* ------------------------------------------------------------------------

LowerLetters ==
    <<"a","b","c","d","e","f","g","h","i","j","k","l","m",
      "n","o","p","q","r","s","t","u","v","w","x","y","z">>

UpperLetters ==
    <<"A","B","C","D","E","F","G","H","I","J","K","L","M",
      "N","O","P","Q","R","S","T","U","V","W","X","Y","Z">>

Digits == <<"0","1","2","3","4","5","6","7","8","9">>

Range(f) == { f[i] : i \in DOMAIN f }

IsLowerLetter(c) == c \in Range(LowerLetters)
IsUpperLetter(c) == c \in Range(UpperLetters)
IsDigit(c) == c \in Range(Digits)
IsAlnum(c) == IsLowerLetter(c) \/ IsUpperLetter(c) \/ IsDigit(c)
IsWordChar(c) == IsAlnum(c) \/ c = "_"
IsSpace(c) == c \in {" ", "\t", "\n"}

IndexIn(f, c) == CHOOSE i \in DOMAIN f : f[i] = c

LowerChar(c) == IF IsUpperLetter(c) THEN LowerLetters[IndexIn(UpperLetters, c)] ELSE c
UpperChar(c) == IF IsLowerLetter(c) THEN UpperLetters[IndexIn(LowerLetters, c)] ELSE c

\* str.lower() and str.upper()
StrLower(s) == [i \in 1..Len(s) |-> LowerChar(s[i])]
StrUpper(s) == [i \in 1..Len(s) |-> UpperChar(s[i])]

\* the character classes of the regular expressions and strip calls
InClass(cls, c) ==
    CASE cls = "space" -> IsSpace(c)
      [] cls = "underscore" -> c = "_"
      [] cls = "non_alnum" -> ~IsAlnum(c)

\* smallest and largest element of a non-empty set of integers
Min(S) == CHOOSE x \in S : \A y \in S : x <= y
Max(S) == CHOOSE x \in S : \A y \in S : y <= x

\* the part of s from the first to the last index in keep
KeepSpan(s, keep) == IF keep = {} THEN << >> ELSE SubSeq(s, Min(keep), Max(keep))

\* str.strip(chars): drop the leading and trailing characters of class cls
StripWith(s, cls) == KeepSpan(s, { i \in 1..Len(s) : ~InClass(cls, s[i]) })

\* str.strip()
Strip(s) == StripWith(s, "space")

\* the characters of s at the indices idx, those of class cls replaced by r
MapRuns(s, cls, r, idx) ==
    [k \in 1..Len(idx) |-> IF InClass(cls, s[idx[k]]) THEN r ELSE s[idx[k]]]

\* re.sub(<class>+, r, s): every maximal run of characters of class cls
\* becomes the single character r
ReSubRuns(s, cls, r) ==
    MapRuns(s, cls, r,
            SelectSeq([i \in 1..Len(s) |-> i],
                      LAMBDA i : \/ ~InClass(cls, s[i])
                                 \/ i = 1
                                 \/ ~InClass(cls, s[i - 1])))

\* s[:n]
Truncate(s, n) == IF Len(s) <= n THEN s ELSE SubSeq(s, 1, n)

\* sub occurs in s starting at index i
MatchAt(s, sub, i) ==
    /\ i >= 1
    /\ i + Len(sub) - 1 <= Len(s)
    /\ \A k \in 1..Len(sub) : s[i + k - 1] = sub[k]

\* `sub in s`
Contains(s, sub) == \E i \in 1..(Len(s) + 1) : MatchAt(s, sub, i)

\* s.startswith(sub)
StartsWith(s, sub) == MatchAt(s, sub, 1)

\* ------------------------------------------------------------------------
\* _clamp01
\* ------------------------------------------------------------------------

\* a Python value a confidence field can hold: a float (t = "float", v in
\* hundredths; "nan", "inf", "-inf"), a str (t = "str", s) or None
PyVal(t, v, s) == [t |-> t, v |-> v, s |-> s]
Float(v) == PyVal("float", v, << >>)
NaN == PyVal("nan", 0, << >>)
PosInf == PyVal("inf", 0, << >>)
NegInf == PyVal("-inf", 0, << >>)
PyStr(s) == PyVal("str", 0, s)
PyNone == PyVal("none", 0, << >>)

\* an exception escaped the call
Raised == PyVal("raised", 0, << >>)

\* a < b on Python floats (every comparison with NaN is False)
FloatLt(a, b) ==
    CASE a.t = "nan" \/ b.t = "nan" -> FALSE
      [] a.t = "-inf" -> b.t # "-inf"
      [] a.t = "inf" -> FALSE
      [] b.t = "-inf" -> FALSE
      [] b.t = "inf" -> TRUE
      [] OTHER -> a.v < b.v

\* builtin min(a, b) and max(a, b): the first argument wins unless the
\* second compares strictly smaller (greater)
PyMin(a, b) == IF FloatLt(b, a) THEN b ELSE a
PyMax(a, b) == IF FloatLt(a, b) THEN b ELSE a

\* value of a run of decimal digits
RECURSIVE DigitsValue(_)
DigitsValue(ds) ==
    IF ds = << >> THEN 0
    ELSE 10 * DigitsValue(SubSeq(ds, 1, Len(ds) - 1)) + (IndexIn(Digits, ds[Len(ds)]) - 1)

AllDigits(s) == \A i \in 1..Len(s) : IsDigit(s[i])

\* value in hundredths of the fraction digits fp (at most two)
FractionValue(fp) ==
    IF Len(fp) = 0 THEN 0
    ELSE IF Len(fp) = 1 THEN 10 * DigitsValue(fp)
    ELSE DigitsValue(fp)

\* float of the sign, the integer digits ip and the fraction digits fp;
\* the inputs of the model carry at most two fraction digits
DecimalValue(neg, ip, fp) ==
    IF AllDigits(ip) /\ AllDigits(fp) /\ Len(ip) + Len(fp) >= 1 /\ Len(fp) <= 2
    THEN Float((IF neg THEN -1 ELSE 1) * (100 * DigitsValue(ip) + FractionValue(fp)))
    ELSE Raised

\* float of the unsigned literal u whose decimal points are at dots
ParseDecimal(neg, u, dots) ==
    IF Cardinality(dots) > 1 THEN Raised
    ELSE IF dots = {} THEN DecimalValue(neg, u, << >>)
    ELSE DecimalValue(neg, SubSeq(u, 1, Min(dots) - 1), SubSeq(u, Min(dots) + 1, Len(u)))

ParseMagnitude(neg, u) ==
    IF u = <<"n","a","n">> THEN NaN
    ELSE IF u \in {<<"i","n","f">>, <<"i","n","f","i","n","i","t","y">>}
         THEN (IF neg THEN NegInf ELSE PosInf)
    ELSE ParseDecimal(neg, u, { i \in 1..Len(u) : u[i] = "." })

ParseSigned(t) ==
    IF t # << >> /\ t[1] \in {"-", "+"}
    THEN ParseMagnitude(t[1] = "-", Tail(t))
    ELSE ParseMagnitude(FALSE, t)

\* float(str): surrounding whitespace ignored, optional sign, "nan", "inf"
\* or decimal digits with an optional fraction
ParseFloat(s) == ParseSigned(StrLower(Strip(s)))

\* float(x) for the values a confidence field can hold
ToFloat(x) ==
    CASE x.t \in {"float", "nan", "inf", "-inf"} -> x
      [] x.t = "str" -> ParseFloat(x.s)
      [] OTHER -> Raised

\* faulty variant: the upper bound is not applied
ClampFloat_no_upper(f) ==
    IF f.t = "raised" THEN Float(0)
    ELSE PyMax(Float(0), f)

\* max(0.0, min(1.0, f)), and 0.0 when float(x) raised
ClampFloat(f) ==
    IF f.t = "raised" THEN Float(0)
    ELSE PyMax(Float(0), PyMin(Float(100), f))

_clamp01(x) == ClampFloat(ToFloat(x))

\* ------------------------------------------------------------------------
\* _normalize_sub_action_key
\* ------------------------------------------------------------------------

KEY_OTHER == <<"O","T","H","E","R">>

\* key.upper() if key else "OTHER"
UpperOrOther(k) == IF k # << >> THEN StrUpper(k) ELSE KEY_OTHER

\* faulty variant: leading and trailing underscores are kept
NormalizeStripped_no_strip(k1) ==
    IF k1 = << >> THEN KEY_OTHER
    ELSE UpperOrOther(ReSubRuns(ReSubRuns(k1, "non_alnum", "_"), "underscore", "_"))

\* the two re.sub calls and strip("_") on the stripped key k1
NormalizeStripped(k1) ==
    IF k1 = << >> THEN KEY_OTHER
    ELSE UpperOrOther(StripWith(ReSubRuns(ReSubRuns(k1, "non_alnum", "_"),
                                          "underscore", "_"),
                                "underscore"))

_normalize_sub_action_key(key) ==
    IF key = << >> THEN KEY_OTHER ELSE NormalizeStripped(Strip(key))

\* ------------------------------------------------------------------------
\* Regular-expression primitives used by the temporal resolver
\* ------------------------------------------------------------------------

\* character at index i, or a non-word character outside the string
CharAt(s, i) == IF i >= 1 /\ i <= Len(s) THEN s[i] ELSE " "

\* \b between s[i-1] and s[i]
WordBoundary(s, i) == IsWordChar(CharAt(s, i - 1)) # IsWordChar(CharAt(s, i))

\* re.search(rf"\b{w}\b", s)
SearchWord(s, w) ==
    \E i \in 1..Len(s) :
        MatchAt(s, w, i) /\ WordBoundary(s, i) /\ WordBoundary(s, i + Len(w))

\* the element at the smallest index in idx, None when idx is empty
FirstOf(seq, idx) == IF idx = {} THEN None ELSE seq[Min(idx)]

\* the first element of a sequence of Optionals that is not None
FirstSome(seq) == FirstOf(seq, { i \in DOMAIN seq : seq[i] # None })

\* index of the first non-whitespace character at or after i (\s*)
SkipSpaces(s, i) == Min({ j \in i..(Len(s) + 1) : j = Len(s) + 1 \/ ~IsSpace(s[j]) })

\* s[i..i+n-1] are digits
DigitRunAt(s, i, n) == \A k \in 0..(n - 1) : IsDigit(CharAt(s, i + k))

\* (am|pm)\b at k, case-insensitive: Some(lower-cased match) or None
AmPmAt(s, k) ==
    IF /\ k + 1 <= Len(s)
       /\ StrLower(<<s[k], s[k + 1]>>) \in {<<"a","m">>, <<"p","m">>}
       /\ WordBoundary(s, k + 2)
    THEN Some(StrLower(<<s[k], s[k + 1]>>))
    ELSE None

\* the tail \s*(am|pm)\b of _TIME_RE_12H at k, after the hour s[i..j-1]
\* and the minute group m
Match12HTail(s, i, j, k, m) ==
    IF AmPmAt(s, k) # None
    THEN Some([h |-> DigitsValue(SubSeq(s, i, j - 1)), m |-> m, ampm |-> AmPmAt(s, k)[1]])
    ELSE None

\* _TIME_RE_12H with the optional group (?::(\d{2})) taken at j
Match12HMinutes(s, i, j) ==
    IF CharAt(s, j) = ":" /\ DigitRunAt(s, j + 1, 2)
    THEN Match12HTail(s, i, j, SkipSpaces(s, j + 3),
                      Some(DigitsValue(SubSeq(s, j + 1, j + 2))))
    ELSE None

\* _TIME_RE_12H matched at i with an n-digit hour: the optional minute
\* group is tried first, then skipped
Match12HAtN(s, i, n) ==
    IF WordBoundary(s, i) /\ DigitRunAt(s, i, n)
    THEN FirstSome(<<Match12HMinutes(s, i, i + n),
                     Match12HTail(s, i, i + n, SkipSpaces(s, i + n), None)>>)
    ELSE None

\* _TIME_RE_12H matched at i: \d{1,2} is greedy
Match12HAt(s, i) == FirstSome(<<Match12HAtN(s, i, 2), Match12HAtN(s, i, 1)>>)

\* _TIME_RE_12H.search(s): the leftmost match [h, m, ampm], or None
Search12H(s) == FirstSome([i \in 1..Len(s) |-> Match12HAt(s, i)])

\* _TIME_RE_24H matched at i with an n-digit hour
Match24HAtN(s, i, n) ==
    IF /\ WordBoundary(s, i)
       /\ DigitRunAt(s, i, n)
       /\ CharAt(s, i + n) = ":"
       /\ DigitRunAt(s, i + n + 1, 2)
       /\ WordBoundary(s, i + n + 3)
    THEN Some([h |-> DigitsValue(SubSeq(s, i, i + n - 1)),
               m |-> DigitsValue(SubSeq(s, i + n + 1, i + n + 2))])
    ELSE None

Match24HAt(s, i) == FirstSome(<<Match24HAtN(s, i, 2), Match24HAtN(s, i, 1)>>)

\* _TIME_RE_24H.search(s): the leftmost match [h, m], or None
Search24H(s) == FirstSome([i \in 1..Len(s) |-> Match24HAt(s, i)])

\* ------------------------------------------------------------------------
\* Tables of the temporal resolver
\* ------------------------------------------------------------------------

\* _DAY_OF_WEEK, in the dict's insertion order
_DAY_OF_WEEK ==
    <<[name |-> <<"m","o","n","d","a","y">>, wd |-> 0],
      [name |-> <<"t","u","e","s","d","a","y">>, wd |-> 1],
      [name |-> <<"w","e","d","n","e","s","d","a","y">>, wd |-> 2],
      [name |-> <<"t","h","u","r","s","d","a","y">>, wd |-> 3],
      [name |-> <<"f","r","i","d","a","y">>, wd |-> 4],
      [name |-> <<"s","a","t","u","r","d","a","y">>, wd |-> 5],
      [name |-> <<"s","u","n","d","a","y">>, wd |-> 6]>>

IANA_LA == <<"A","m","e","r","i","c","a","/","L","o","s","_","A","n","g","e","l","e","s">>
IANA_DENVER == <<"A","m","e","r","i","c","a","/","D","e","n","v","e","r">>
IANA_CHICAGO == <<"A","m","e","r","i","c","a","/","C","h","i","c","a","g","o">>
IANA_NEW_YORK == <<"A","m","e","r","i","c","a","/","N","e","w","_","Y","o","r","k">>
IANA_UTC == <<"U","T","C">>

\* _TZ_ABBREV_TO_IANA, in the dict's insertion order
_TZ_ABBREV_TO_IANA ==
    <<[abbr |-> <<"p","t">>, iana |-> IANA_LA],
      [abbr |-> <<"p","s","t">>, iana |-> IANA_LA],
      [abbr |-> <<"p","d","t">>, iana |-> IANA_LA],
      [abbr |-> <<"m","t">>, iana |-> IANA_DENVER],
      [abbr |-> <<"m","s","t">>, iana |-> IANA_DENVER],
      [abbr |-> <<"m","d","t">>, iana |-> IANA_DENVER],
      [abbr |-> <<"c","t">>, iana |-> IANA_CHICAGO],
      [abbr |-> <<"c","s","t">>, iana |-> IANA_CHICAGO],
      [abbr |-> <<"c","d","t">>, iana |-> IANA_CHICAGO],
      [abbr |-> <<"e","t">>, iana |-> IANA_NEW_YORK],
      [abbr |-> <<"e","s","t">>, iana |-> IANA_NEW_YORK],
      [abbr |-> <<"e","d","t">>, iana |-> IANA_NEW_YORK],
      [abbr |-> <<"u","t","c">>, iana |-> IANA_UTC],
      [abbr |-> <<"g","m","t">>, iana |-> IANA_UTC]>>

\* faulty variant: -7 hours is Denver
_OFFSET_TO_IANA_denver ==
    [h \in {-8, -7, -6, -5, 0} |->
        CASE h = -8 -> IANA_LA
          [] h = -7 -> IANA_DENVER
          [] h = -6 -> IANA_CHICAGO
          [] h = -5 -> IANA_NEW_YORK
          [] h = 0 -> IANA_UTC]

\* _OFFSET_TO_IANA: UTC offset in hours -> zone name
_OFFSET_TO_IANA ==
    [h \in {-8, -7, -6, -5, 0} |->
        CASE h = -8 -> IANA_LA
          [] h = -7 -> IANA_LA
          [] h = -6 -> IANA_CHICAGO
          [] h = -5 -> IANA_NEW_YORK
          [] h = 0 -> IANA_UTC]

\* dateutil_tz.gettz(iana) / timezone.utc: the zone's UTC offset in hours.
\* The reference instants of the model lie in February 2024, when every
\* zone of the table is on standard time.
gettz(iana) ==
    CASE iana = IANA_LA -> -8
      [] iana = IANA_DENVER -> -7
      [] iana = IANA_CHICAGO -> -6
      [] iana = IANA_NEW_YORK -> -5
      [] iana = IANA_UTC -> 0

W_today == <<"t","o","d","a","y">>
W_tomorrow == <<"t","o","m","o","r","r","o","w">>
W_next == <<"n","e","x","t">>
W_noon == <<"n","o","o","n">>
W_midnight == <<"m","i","d","n","i","g","h","t">>
W_eod == <<"e","o","d">>
W_end_of_day == <<"e","n","d"," ","o","f"," ","d","a","y">>

\* ------------------------------------------------------------------------
\* datetime
\* ------------------------------------------------------------------------

\* aware datetime; off is Some(hours) and None for a naive datetime
DateTime(day, hour, minute, off) ==
    [day |-> day, hour |-> hour, minute |-> minute, off |-> off]

\* datetime.weekday(): Monday is 0
weekday(dt) == dt.day % 7

\* dt.astimezone(tzinfo) for an aware dt
astimezone(dt, tzoff) ==
    LET total == dt.hour * 60 + dt.minute + (tzoff - dt.off[1]) * 60
    IN  DateTime(dt.day + (total \div 1440), (total % 1440) \div 60, total % 60, Some(tzoff))

\* dt + timedelta(days=n)
PlusDays(dt, n) == [dt EXCEPT !.day = dt.day + n]

\* ------------------------------------------------------------------------
\* _extract_timezone
\* ------------------------------------------------------------------------

\* the pair (tzinfo, tz_name) for a zone of the tables; tzinfo is kept as
\* its UTC offset in hours
ZoneResult(iana) == [tzinfo |-> gettz(iana), tz_name |-> Some(iana)]

\* faulty variant: the last abbreviation of the table that is found wins
TimezoneFrom_last_hit(base_dt, hits) ==
    IF hits # {}
    THEN ZoneResult(_TZ_ABBREV_TO_IANA[Max(hits)].iana)
    ELSE IF base_dt.off # None /\ base_dt.off[1] \in DOMAIN _OFFSET_TO_IANA
    THEN ZoneResult(_OFFSET_TO_IANA[base_dt.off[1]])
    ELSE [tzinfo |-> (IF base_dt.off # None THEN base_dt.off[1] ELSE 0),
          tz_name |-> None]

\* hits: the indices of the abbreviations found in the text
TimezoneFrom(base_dt, hits) ==
    IF hits # {}
    THEN ZoneResult(_TZ_ABBREV_TO_IANA[Min(hits)].iana)
    ELSE IF base_dt.off # None /\ base_dt.off[1] \in DOMAIN _OFFSET_TO_IANA
    THEN ZoneResult(_OFFSET_TO_IANA[base_dt.off[1]])
    ELSE [tzinfo |-> (IF base_dt.off # None THEN base_dt.off[1] ELSE 0),
          tz_name |-> None]

\* returns [tzinfo |-> offset hours, tz_name |-> Optional str]
_extract_timezone(text, base_dt) ==
    TimezoneFrom(base_dt,
                 { i \in DOMAIN _TZ_ABBREV_TO_IANA :
                     SearchWord(StrLower(text), _TZ_ABBREV_TO_IANA[i].abbr) })

\* ------------------------------------------------------------------------
\* _extract_time_components
\* ------------------------------------------------------------------------

HourMinute(h, m) == [h |-> h, m |-> m]

\* faulty variant: 12 pm is not kept at 12
From12H_pm_adds_12(m) ==
    HourMinute(IF m.ampm = <<"a","m">>
               THEN (IF m.h = 12 THEN 0 ELSE m.h)
               ELSE m.h + 12,
               IF m.m # None THEN m.m[1] ELSE 0)

\* hour and minute of a _TIME_RE_12H match
From12H(m) ==
    HourMinute(IF m.ampm = <<"a","m">>
               THEN (IF m.h = 12 THEN 0 ELSE m.h)
               ELSE (IF m.h = 12 THEN m.h ELSE m.h + 12),
               IF m.m # None THEN m.m[1] ELSE 0)

\* m12 and m24 are the matches of the two patterns in lower
TimeFromMatches(lower, m12, m24) ==
    IF Contains(lower, W_noon) THEN Some(HourMinute(12, 0))
    ELSE IF Contains(lower, W_midnight) THEN Some(HourMinute(0, 0))
    ELSE IF Contains(lower, W_eod) \/ Contains(lower, W_end_of_day)
         THEN Some(HourMinute(17, 0))
    ELSE IF m12 # None THEN Some(From12H(m12[1]))
    ELSE IF m24 # None /\ m24[1].h \in 0..23 /\ m24[1].m \in 0..59
         THEN Some(HourMinute(m24[1].h, m24[1].m))
    ELSE None

TimeComponents(lower) == TimeFromMatches(lower, Search12H(lower), Search24H(lower))

\* returns None for (None, None) and Some([h, m]) otherwise
_extract_time_components(text) == TimeComponents(StrLower(text))

\* ------------------------------------------------------------------------
\* _infer_datetime
\* ------------------------------------------------------------------------

\* faulty variant: the same weekday resolves to the reference day itself
WeekdayDelta_same_day(target_wd, base_wd, has_next) ==
    ((target_wd - base_wd) % 7) + (IF has_next THEN 7 ELSE 0)

\* days from the reference weekday to the target weekday
WeekdayDelta(target_wd, base_wd, has_next) ==
    (IF (target_wd - base_wd) % 7 = 0 THEN 7 ELSE (target_wd - base_wd) % 7)
    + (IF has_next THEN 7 ELSE 0)

\* faulty variant: the last day name of the table that the text has wins
ResolveWeekday_last_hit(lower, base_local, hits) ==
    IF hits # {}
    THEN Some(PlusDays(base_local,
                       WeekdayDelta(_DAY_OF_WEEK[Max(hits)].wd, weekday(base_local),
                                    SearchWord(lower, W_next))))
    ELSE None

\* the weekday loop; hits are the indices of the day names found in lower
ResolveWeekday(lower, base_local, hits) ==
    IF hits # {}
    THEN Some(PlusDays(base_local,
                       WeekdayDelta(_DAY_OF_WEEK[Min(hits)].wd, weekday(base_local),
                                    SearchWord(lower, W_next))))
    ELSE None

\* steps 1 and 2 of _infer_datetime: day_dt, None when the text names no day
ResolveDay(lower, base_local) ==
    IF Contains(lower, W_today) THEN Some(base_local)
    ELSE IF Contains(lower, W_tomorrow) THEN Some(PlusDays(base_local, 1))
    ELSE ResolveWeekday(lower, base_local,
                        { i \in DOMAIN _DAY_OF_WEEK :
                            SearchWord(lower, _DAY_OF_WEEK[i].name) })

\* the wall time dateutil reads from a 12-hour match: the fields the text
\* gives replace those of the default, so an hour alone keeps the minute of
\* base_local; None when dateutil raises
Dateutil12H(base_local, m) ==
    IF m.h \in 1..12 /\ (m.m = None \/ m.m[1] \in 0..59)
    THEN Some([base_local EXCEPT !.hour = From12H(m).h,
                                 !.minute = IF m.m # None THEN m.m[1] ELSE base_local.minute])
    ELSE None

\* the wall time dateutil reads from an HH:MM match, None when it raises
Dateutil24H(base_local, m) ==
    IF m.h \in 0..23 /\ m.m \in 0..59
    THEN Some([base_local EXCEPT !.hour = m.h, !.minute = m.m])
    ELSE None

DateutilFromMatches(base_local, m12, m24) ==
    IF m12 # None THEN Dateutil12H(base_local, m12[1])
    ELSE IF m24 # None THEN Dateutil24H(base_local, m24[1])
    ELSE None

\* dateutil_parser.parse(text, default=base_local, fuzzy=True) on a text
\* that names no day: a clock time in the text replaces the time of the
\* default, and a text without any date or time token raises (None here).
\* The result is the wall time; the caller attaches tzinfo.  The inputs of
\* the model carry no calendar dates, and give a 12-hour time with an hour
\* outside 1..12 only next to a day word, where dateutil is not reached.
DateutilParse(text, base_local) ==
    DateutilFromMatches(base_local, Search12H(StrLower(text)), Search24H(StrLower(text)))

InferResult(dt, tz_name) == [t |-> "ok", v |-> 0, s |-> << >>, dt |-> dt, tz_name |-> tz_name]

\* step 3: day_dt.replace(hour=..., minute=...), which raises ValueError
\* for an hour outside 0..23 or a minute outside 0..59
AttachTime(day_dt, hm, tz_name) ==
    IF hm = None
    THEN InferResult(Some([day_dt EXCEPT !.hour = 0, !.minute = 0]), tz_name)
    ELSE IF hm[1].h \in 0..23 /\ hm[1].m \in 0..59
    THEN InferResult(Some([day_dt EXCEPT !.hour = hm[1].h, !.minute = hm[1].m]), tz_name)
    ELSE Raised

\* step 4: the dateutil fallback inside try/except
AttachZone(parsed, tz) ==
    IF parsed # None
    THEN InferResult(Some([parsed[1] EXCEPT !.off = Some(tz.tzinfo)]), tz.tz_name)
    ELSE InferResult(None, None)

InferFromDay(text, lower, base_local, tz, day_dt) ==
    IF day_dt # None
    THEN AttachTime(day_dt[1], _extract_time_components(lower), tz.tz_name)
    ELSE AttachZone(DateutilParse(text, base_local), tz)

InferLocal(text, lower, base_local, tz) ==
    InferFromDay(text, lower, base_local, tz, ResolveDay(lower, base_local))

InferInZone(text, base, tz) ==
    InferLocal(text, StrLower(Strip(text)), astimezone(base, tz.tzinfo), tz)

InferWithBase(text, base) == InferInZone(text, base, _extract_timezone(text, base))

\* returns Raised when an exception escapes the call, and otherwise
\* InferResult(dt, tz_name) with both Optional
_infer_datetime(text, base_dt) ==
    IF text = << >> \/ Strip(text) = << >>
    THEN InferResult(None, None)
    ELSE InferWithBase(text, IF base_dt.off = None
                             THEN [base_dt EXCEPT !.off = Some(0)]
                             ELSE base_dt)

\* ------------------------------------------------------------------------
\* ISO strings.  An ISO-8601 string is kept as what it spells:
\*   k = "datetime": date and time, off = Some(hours) when it ends in an
\*                   offset and None when it does not
\*   k = "date":     a date only
\*   k = "blank":    empty or whitespace only
\*   k = "text":     anything isoparse rejects
\* ------------------------------------------------------------------------

IsoStr(k, day, hour, minute, off) ==
    [k |-> k, day |-> day, hour |-> hour, minute |-> minute, off |-> off]

IsoBlank == IsoStr("blank", 0, 0, 0, None)
IsoText == IsoStr("text", 0, 0, 0, None)

\* datetime.isoformat()
isoformat(dt) == IsoStr("datetime", dt.day, dt.hour, dt.minute, dt.off)

\* datetime.date().isoformat()
date_isoformat(dt) == IsoStr("date", dt.day, 0, 0, None)

\* dateutil_parser.isoparse(iso): None when it raises
isoparse(iso) ==
    CASE iso.k = "datetime" -> Some(DateTime(iso.day, iso.hour, iso.minute, iso.off))
      [] iso.k = "date" -> Some(DateTime(iso.day, 0, 0, None))
      [] OTHER -> None

IsoPresent_never(o) == FALSE

\* (iso or "").strip() is non-empty
IsoPresent(o) == o # None /\ o[1].k # "blank"

\* ------------------------------------------------------------------------
\* _subject_to_topic
\* ------------------------------------------------------------------------

RePrefixes == << <<"r","e">>, <<"f","w","d">>, <<"f","w">> >>

\* the match continues after the alternative with \s*:\s*; j is the index
\* after \s*; returns the end of the match, 0 if none
PrefixColon(s, j) ==
    IF j <= Len(s) /\ s[j] = ":" THEN SkipSpaces(s, j + 1) - 1 ELSE 0

\* i0 is the index after the leading \s*
PrefixFrom(s, p, i0) ==
    IF MatchAt(StrLower(s), p, i0) THEN PrefixColon(s, SkipSpaces(s, i0 + Len(p))) ELSE 0

\* end of a match of ^(\s*(re|fwd|fw)\s*:\s*) with alternative p, 0 if none
PrefixEnd(s, p) == PrefixFrom(s, p, SkipSpaces(s, 1))

\* ok: the alternatives that match
DropPrefix(s, ok) ==
    IF ok = {} THEN s
    ELSE SubSeq(s, PrefixEnd(s, RePrefixes[Min(ok)]) + 1, Len(s))

\* re.sub(r"^(\s*(re|fwd|fw)\s*:\s*)", "", s, flags=re.IGNORECASE)
StripPrefixOnce(s) ==
    DropPrefix(s, { n \in DOMAIN RePrefixes : PrefixEnd(s, RePrefixes[n]) > 0 })

RECURSIVE StripPrefixLoop(_)
RECURSIVE StripPrefixStep(_, _)

\* faulty variant: one pass only
StripPrefixStep_once(s, new) == new

StripPrefixStep(s, new) == IF new = s THEN s ELSE StripPrefixLoop(new)

\* the while-loop of _subject_to_topic
StripPrefixLoop(s) == StripPrefixStep(s, StripPrefixOnce(s))

\* faulty variant: the subject is returned as it is
_subject_to_topic_raw(subject) == subject

_subject_to_topic(subject) == Strip(StripPrefixLoop(Strip(subject)))

\* ------------------------------------------------------------------------
\* Evidence clean-up of postprocess_triage
\* ------------------------------------------------------------------------

EVIDENCE_MAX_LEN == 240
EVIDENCE_MAX_COUNT == 3

\* faulty variant: the entry is not cut
CleanEntry_uncut(e) == ReSubRuns(Strip(e), "space", " ")

\* one entry: (e or "").strip(), re.sub(r"\s+", " ", s), s[:240]
CleanEntry(e) == Truncate(ReSubRuns(Strip(e), "space", " "), EVIDENCE_MAX_LEN)

RECURSIVE EvidenceLoop(_, _, _, _)
RECURSIVE EvidenceStep(_, _, _, _, _)

\* the loop body after "if not s: continue"; s is the cleaned entry i
EvidenceStep(evidence, i, cleaned, seen, s) ==
    IF StrLower(s) \in seen THEN EvidenceLoop(evidence, i + 1, cleaned, seen)
    ELSE IF Len(cleaned) + 1 >= EVIDENCE_MAX_COUNT THEN Append(cleaned, s)
    ELSE EvidenceLoop(evidence, i + 1, Append(cleaned, s), seen \cup {StrLower(s)})

\* the for-loop over llm.evidence from entry i on, with the entries
\* collected so far in cleaned and their lower-cased forms in seen
EvidenceLoop(evidence, i, cleaned, seen) ==
    IF i > Len(evidence) THEN cleaned
    ELSE IF Strip(evidence[i]) = << >> THEN EvidenceLoop(evidence, i + 1, cleaned, seen)
    ELSE EvidenceStep(evidence, i, cleaned, seen, CleanEntry(evidence[i]))

CleanEvidence(evidence) == EvidenceLoop(evidence, 1, << >>, {})

\* (task_type or "").strip() or None
StripOrNone(t) == IF t = << >> THEN None ELSE Some(t)

\* faulty variant: the task type is stripped whatever explicit_task says
NormalizeTaskType_always_kept(explicit_task, task_type) ==
    StripOrNone(Strip(IF task_type = None THEN << >> ELSE task_type[1]))

\* llm.task_type after the explicit_task rule
NormalizeTaskType(explicit_task, task_type) ==
    IF ~explicit_task THEN None
    ELSE StripOrNone(Strip(IF task_type = None THEN << >> ELSE task_type[1]))

\* ------------------------------------------------------------------------
\* _fill_sender
\* ------------------------------------------------------------------------

ROLE_SENDER == <<"s","e","n","d","e","r">>

PersonRef(email, role) == [email |-> email, role |-> role]

\* faulty variant: the addresses are compared as they are spelled
SameAddress_exact(email, sender_email) == email = sender_email

\* (p.email or "").lower() == sender_email.lower()
SameAddress(email, sender_email) == StrLower(email) = StrLower(sender_email)

\* faulty variant: an empty role is left empty
EnsureRole_keep(people, i) == people

\* the loop body at the first entry with the sender's address
EnsureRole(people, i) ==
    IF people[i].role = << >> THEN [people EXCEPT ![i].role = ROLE_SENDER] ELSE people

\* faulty variant: the new entry goes to the end of the list
SenderFrom_append(sender_email, people, hits) ==
    IF hits # {} THEN EnsureRole(people, Min(hits))
    ELSE people \o <<PersonRef(sender_email, ROLE_SENDER)>>

\* hits: the indices of the entries with the sender's address
SenderFrom(sender_email, people, hits) ==
    IF hits # {} THEN EnsureRole(people, Min(hits))
    ELSE <<PersonRef(sender_email, ROLE_SENDER)>> \o people

\* returns the people list after the call
_fill_sender(from_email, people) ==
    IF from_email = None \/ from_email[1] = << >> THEN people
    ELSE SenderFrom(from_email[1], people,
                    { i \in DOMAIN people : SameAddress(people[i].email, from_email[1]) })

\* ------------------------------------------------------------------------
\* _fill_date_isos
\* ------------------------------------------------------------------------

DateRef(text, iso, type) == [text |-> text, iso |-> iso, type |-> type]

\* the has_time expression of _fill_date_isos
HasTime(text) == _extract_time_components(text) # None \/ Search24H(text) # None

DateResult(raised, dates, best_tz_name, best_dt) ==
    [raised |-> raised, dates |-> dates, best_tz_name |-> best_tz_name, best_dt |-> best_dt]

RECURSIVE DateLoop(_, _, _, _, _)
RECURSIVE DateFill(_, _, _, _, _, _, _)
RECURSIVE DateStep(_, _, _, _, _, _)

\* the loop body from "d.iso = ..." on; r is the result of _infer_datetime
DateFill(dates, i, base_dt, best_tz_name, best_dt, r, has_time) ==
    IF best_dt = None /\ has_time
    THEN DateLoop([dates EXCEPT ![i].iso = Some(isoformat(r.dt[1]))],
                  i + 1, base_dt, r.tz_name, r.dt)
    ELSE DateLoop([dates EXCEPT ![i].iso =
                      Some(IF has_time THEN isoformat(r.dt[1]) ELSE date_isoformat(r.dt[1]))],
                  i + 1, base_dt, best_tz_name, best_dt)

\* the loop body for an entity without ISO string
DateStep(dates, i, base_dt, best_tz_name, best_dt, r) ==
    IF r.t = "raised" THEN DateResult(TRUE, dates, best_tz_name, best_dt)
    ELSE IF r.dt = None THEN DateLoop(dates, i + 1, base_dt, best_tz_name, best_dt)
    ELSE DateFill(dates, i, base_dt, best_tz_name, best_dt, r, HasTime(dates[i].text))

\* the for-loop over llm.entities.dates from entity i on
DateLoop(dates, i, base_dt, best_tz_name, best_dt) ==
    IF i > Len(dates) THEN DateResult(FALSE, dates, best_tz_name, best_dt)
    ELSE IF IsoPresent(dates[i].iso)
    THEN DateLoop(dates, i + 1, base_dt, best_tz_name,
                  IF best_dt = None THEN isoparse(dates[i].iso[1]) ELSE best_dt)
    ELSE DateStep(dates, i, base_dt, best_tz_name, best_dt,
                  _infer_datetime(dates[i].text, base_dt))

\* the rest of the call, base_dt being the reference instant
_fill_date_isos(dates, base_dt) == DateLoop(dates, 1, base_dt, None, None)

\* ------------------------------------------------------------------------
\* _fill_meeting
\* ------------------------------------------------------------------------

MeetingRef(topic, start_at, tz) == [topic |-> topic, start_at |-> start_at, tz |-> tz]

SCHEDULE_AND_TIME == "schedule_and_time"
SCHEDULE_PREFIX == <<"S","C","H","E","D","U","L","E","_">>

\* (s or "").strip() is empty
BlankStr_always(o) == TRUE

BlankStr(o) == o = None \/ Strip(o[1]) = << >>

wants_meeting_category_only(major_category, sub_action_key) ==
    major_category = SCHEDULE_AND_TIME

wants_meeting(major_category, sub_action_key) ==
    \/ major_category = SCHEDULE_AND_TIME
    \/ StartsWith(StrUpper(sub_action_key), SCHEDULE_PREFIX)

\* "Fill tz (IANA preferred)"
FillTz(m, tz_name) ==
    IF BlankStr(m.tz) /\ tz_name # None /\ tz_name[1] # << >>
    THEN [m EXCEPT !.tz = tz_name]
    ELSE m

\* "Fill start_at from the best inferred datetime (if missing)"
FillStartAt(m, tz_name, best_dt) ==
    FillTz(IF ~IsoPresent(m.start_at) /\ best_dt # None
           THEN [m EXCEPT !.start_at = Some(isoformat(best_dt[1]))]
           ELSE m,
           tz_name)

\* "Fill topic from subject if missing"
FillTopic(m, subject, tz_name, best_dt) ==
    FillStartAt(IF BlankStr(m.topic)
                THEN [m EXCEPT !.topic = Some(_subject_to_topic(subject))]
                ELSE m,
                tz_name, best_dt)

\* returns entities.meeting after the call
_fill_meeting(parsed_email_, major_category, sub_action_key, meeting, tz_name, best_dt) ==
    IF ~wants_meeting(major_category, sub_action_key) THEN meeting
    ELSE Some(FillTopic(IF meeting = None THEN MeetingRef(None, None, None) ELSE meeting[1],
                        parsed_email_.subject, tz_name, best_dt))

\* ------------------------------------------------------------------------
\* postprocess_triage
\* ------------------------------------------------------------------------

\* the draft after the "Normalize and clamp" block
Sanitize(l) ==
    [l EXCEPT !.confidence = _clamp01(l.confidence),
              !.sub_action_key = _normalize_sub_action_key(l.sub_action_key),
              !.reason = Strip(l.reason),
              !.evidence = CleanEvidence(l.evidence),
              !.task_type = NormalizeTaskType(l.explicit_task, l.task_type)]

EmailTriageResponse_thread_of_id(msg_, l) ==
    [t |-> "response",
     message_id |-> msg_.id,
     thread_id |-> Some(msg_.id),
     major_category |-> l.major_category,
     sub_action_key |-> l.sub_action_key,
     reply_required |-> l.reply_required,
     explicit_task |-> l.explicit_task,
     task_type |-> l.task_type,
     confidence |-> l.confidence,
     reason |-> l.reason,
     evidence |-> l.evidence,
     entities |-> l.entities]

EmailTriageResponse(msg_, l) ==
    [t |-> "response",
     message_id |-> msg_.id,
     thread_id |-> msg_.threadId,
     major_category |-> l.major_category,
     sub_action_key |-> l.sub_action_key,
     reply_required |-> l.reply_required,
     explicit_task |-> l.explicit_task,
     task_type |-> l.task_type,
     confidence |-> l.confidence,
     reason |-> l.reason,
     evidence |-> l.evidence,
     entities |-> l.entities]

\* what one call leaves behind: the draft as mutated, and the response
\* returned or Raised
CallResult(msg_, l, raised) ==
    [llm |-> l, resp |-> IF raised THEN Raised ELSE EmailTriageResponse(msg_, l)]

\* _fill_meeting on the draft l, after _fill_date_isos returned fd
WithMeeting(msg_, parsed_email_, l, fd) ==
    CallResult(msg_,
               [l EXCEPT !.entities.meeting =
                   _fill_meeting(parsed_email_, l.major_category, l.sub_action_key,
                                 l.entities.meeting, fd.best_tz_name, fd.best_dt)],
               FALSE)

\* the draft l with the dates _fill_date_isos left; an exception escaping
\* _fill_date_isos ends the call
WithDates(msg_, parsed_email_, l, fd) ==
    IF fd.raised
    THEN CallResult(msg_, [l EXCEPT !.entities.dates = fd.dates], TRUE)
    ELSE WithMeeting(msg_, parsed_email_, [l EXCEPT !.entities.dates = fd.dates], fd)

\* "Fill deterministic entities" on the sanitized draft l
FillEntities(msg_, parsed_email_, l, base_dt) ==
    WithDates(msg_, parsed_email_,
              [l EXCEPT !.entities.people =
                  _fill_sender(parsed_email_.from_email, l.entities.people)],
              _fill_date_isos(l.entities.dates, base_dt))

\* the whole call on the draft l; base_dt is the reference instant
\* _fill_date_isos works with
Postprocess(msg_, parsed_email_, l, base_dt) ==
    FillEntities(msg_, parsed_email_, Sanitize(l), base_dt)

\* ------------------------------------------------------------------------
\* Recommended actions.  The sources at hand hold the tests and the prompt
\* of the ranked UI actions but not the step of postprocess_triage that
\* sanitizes them; this part follows the specification's Decision
\* Sanitizer: upper-case and trim kind, forcing it to SECONDARY when it is
\* not one of PRIMARY, SECONDARY and DANGER; trim key and label; then sort
\* by the given rank, ties in their original order, and number the ranks
\* from 1.
\* ------------------------------------------------------------------------

RecommendedAction(key, label, kind, rank) ==
    [key |-> key, label |-> label, kind |-> kind, rank |-> rank]

KIND_PRIMARY == <<"P","R","I","M","A","R","Y">>
KIND_SECONDARY == <<"S","E","C","O","N","D","A","R","Y">>
KIND_DANGER == <<"D","A","N","G","E","R">>

NormalizeKind(kind) ==
    IF StrUpper(Strip(kind)) \in {KIND_PRIMARY, KIND_SECONDARY, KIND_DANGER}
    THEN StrUpper(Strip(kind))
    ELSE KIND_SECONDARY

SanitizeAction(a) ==
    [a EXCEPT !.key = Strip(a.key), !.label = Strip(a.label), !.kind = NormalizeKind(a.kind)]

\* faulty variant: a goes before the entries of its own rank
InsertByRank_before_ties(sorted, a) ==
    SelectSeq(sorted, LAMBDA b : b.rank < a.rank) \o <<a>>
        \o SelectSeq(sorted, LAMBDA b : b.rank >= a.rank)

\* a put into the list sorted by rank, after the entries of its own rank
InsertByRank(sorted, a) ==
    SelectSeq(sorted, LAMBDA b : b.rank <= a.rank) \o <<a>>
        \o SelectSeq(sorted, LAMBDA b : b.rank > a.rank)

\* the stable sort by rank of the entries from i on, sorted holding the
\* entries before i
RECURSIVE SortByRank(_, _, _)
SortByRank(actions, i, sorted) ==
    IF i > Len(actions) THEN sorted
    ELSE SortByRank(actions, i + 1, InsertByRank(sorted, actions[i]))

\* ranks 1, 2, ..., n in list order
Renumber(actions) == [i \in 1..Len(actions) |-> [actions[i] EXCEPT !.rank = i]]

SanitizeActions(actions) ==
    Renumber(SortByRank([i \in 1..Len(actions) |-> SanitizeAction(actions[i])], 1, << >>))

\* ------------------------------------------------------------------------
\* Reply-by inference.  The sources at hand hold the tests and the prompt
\* of the urgency assessment but not the step of postprocess_triage that
\* fills reply_by; this part follows the specification's Decision
\* Sanitizer: if a raw deadline text is present and no reply-by instant is
\* set, the text goes through _infer_datetime with the email's best-known
\* timestamp as reference and, if it resolves, reply_by becomes the
\* isoformat() of the instant.  An exception of _infer_datetime escapes.
\* ------------------------------------------------------------------------

UrgencySignals(deadline_text, reply_by) == [deadline_text |-> deadline_text, reply_by |-> reply_by]

\* the assessment u after the step, r being the result of _infer_datetime
ReplyByFrom(u, r) ==
    IF r.t = "raised" THEN [raised |-> TRUE, urgency |-> u]
    ELSE IF r.dt = None THEN [raised |-> FALSE, urgency |-> u]
    ELSE [raised |-> FALSE, urgency |-> [u EXCEPT !.reply_by = Some(isoformat(r.dt[1]))]]

\* faulty variant: a reply_by that is set is replaced
FillReplyBy_overwrite(u, base_dt) ==
    IF u.deadline_text = None
    THEN [raised |-> FALSE, urgency |-> u]
    ELSE ReplyByFrom(u, _infer_datetime(u.deadline_text[1], base_dt))

FillReplyBy(u, base_dt) ==
    IF u.deadline_text = None \/ u.reply_by # None
    THEN [raised |-> FALSE, urgency |-> u]
    ELSE ReplyByFrom(u, _infer_datetime(u.deadline_text[1], base_dt))

\* ------------------------------------------------------------------------
\* String constants of the inputs
\* ------------------------------------------------------------------------

S_key_default == <<"S","C","H","E","D","U","L","E","_","C","O","N","F","I","R","M","_","T","I","M","E">>
S_key_example == <<"s","c","h","e","d","u","l","e"," ","c","o","n","f","i","r","m","!","!">>
S_key_underscores == <<"_","_","_">>
S_key_reply == <<"r","e","p","l","y">>
S_not_a_number == <<"n","o","t"," ","a"," ","n","u","m","b","e","r">>
S_1_7 == <<"1",".","7">>
S_minus_5 == <<"-","5">>
S_0_5_padded == <<" ","0",".","5"," ">>
S_nan == <<"n","a","n">>
S_reason == <<" "," ","S","e","n","d","e","r"," ","a","s","k","s"," ","t","o"," ","c","o","n","f","i","r","m","."," ">>
S_subject_re == <<"R","e",":"," ","C","o","n","t","r","a","c","t"," ","a","p","p","r","o","v","a","l"," ","t","i","m","e","l","i","n","e">>
S_subject_plain == <<"C","o","n","t","r","a","c","t"," ","a","p","p","r","o","v","a","l"," ","t","i","m","e","l","i","n","e">>
S_subject_multi == <<"R","E",":"," ","r","e"," ",":"," ","F","w","d",":"," "," ","L","u","n","c","h">>
S_subject_regarding == <<"R","e","g","a","r","d","i","n","g"," ","l","u","n","c","h">>
S_sarah == <<"s","a","r","a","h","@","a","c","m","e",".","c","o","m">>
S_sarah_upper == <<"S","A","R","A","H","@","A","C","M","E",".","C","O","M">>
S_bob == <<"b","o","b","@","a","c","m","e",".","c","o","m">>
S_recipient == <<"r","e","c","i","p","i","e","n","t">>
S_friday_2pm_pt == <<"F","r","i","d","a","y"," ","2","p","m"," ","P","T">>

\* ------------------------------------------------------------------------
\* Inputs
\* ------------------------------------------------------------------------

\* no direct call of a resolver function is made
NoCall == [text |-> << >>, base_dt |-> DateTime(0, 0, 0, None)]

\* all strings over the alphabet A of length at most n
Strings(A, n) == UNION { [1..k -> A] : k \in 0..n }

\* all lists over the pool P of length at most n
Lists(P, n) == UNION { [1..k -> P] : k \in 0..n }

\* Monday 2024-01-29 10:00 -08:00 is day 0
MONDAY_REF == DateTime(0, 10, 0, Some(-8))

Entities(people, dates, meeting) == [people |-> people, dates |-> dates, meeting |-> meeting]

LLMTriageOutput(major_category, sub_action_key, explicit_task, task_type, confidence, reason, evidence, entities) ==
    [major_category |-> major_category,
     sub_action_key |-> sub_action_key,
     reply_required |-> TRUE,
     explicit_task |-> explicit_task,
     task_type |-> task_type,
     confidence |-> confidence,
     reason |-> reason,
     evidence |-> evidence,
     entities |-> entities]

ParsedEmail(from_email, subject, sent_at, internal_date) ==
    [from_email |-> from_email, subject |-> subject,
     sent_at |-> sent_at, internal_date |-> internal_date]

GmailMessageInput == [id |-> "18c8a3f1b2d0a9a1", threadId |-> Some("18c8a3f1b2d0a9a0")]

\* the example email of the tests
SampleEmail == ParsedEmail(Some(S_sarah), S_subject_re, Some(MONDAY_REF), None)

\* values datetime.now(timezone.utc) can return
WallClock == { DateTime(7, 9, 0, Some(0)), DateTime(11, 23, 30, Some(0)) }

\* parsed_email.sent_at or parsed_email.internal_date or datetime.now(timezone.utc):
\* the values base_dt can take; the clock is read only when the email
\* carries neither timestamp
BaseDt(parsed_email_) ==
    IF parsed_email_.sent_at # None THEN {parsed_email_.sent_at[1]}
    ELSE IF parsed_email_.internal_date # None THEN {parsed_email_.internal_date[1]}
    ELSE WallClock

MaxRuns == 2

\* ---- drafts that vary the confidence and the action key

MaxKeyLen == 3
KeyAlphabet == {"a", "Z", "1", "_", " ", "!"}

ConfidenceInputs ==
    { Float(v) : v \in {-500, -1, 0, 1, 50, 87, 100, 101, 170} }
    \cup { NaN, PosInf, NegInf, PyNone }
    \cup { PyStr(S_not_a_number), PyStr(S_1_7), PyStr(S_minus_5),
           PyStr(S_0_5_padded), PyStr(S_nan), PyStr(<< >>) }

KeyInputs ==
    Strings(KeyAlphabet, MaxKeyLen)
    \cup { S_key_default, S_key_example, S_key_underscores }

SanitizeDrafts ==
    { LLMTriageOutput("other", k, FALSE, None, c, S_reason, << >>,
                      Entities(<< >>, << >>, None)) :
        k \in KeyInputs, c \in ConfidenceInputs }

\* ---- drafts that vary the evidence list, the reason and the task type

S_a_b == <<"a"," ","b">>
S_a_b_padded == <<" ","A"," ","\t"," ","b","\n">>
S_c == <<"c">>
S_d == <<"d">>
S_blank == <<" "," ">>
S_task == <<"r","e","p","l","y">>
S_task_padded == <<" ","r","e","p","l","y"," ">>
S_confirmation == <<"c","o","n","f","i","r","m","a","t","i","o","n"," ","n","e","e","d","e","d"," ","b","y"," ","F","r","i","d","a","y">>

\* 241 characters: 239 letters, a blank and one more letter
S_long == [i \in 1..239 |-> "x"] \o <<" ", "y">>
\* the 239 letters alone
S_long_239 == [i \in 1..239 |-> "x"]

\* s with its first n characters in upper case
CaseVariant(s, n) == [i \in 1..Len(s) |-> IF i <= n THEN UpperChar(s[i]) ELSE s[i]]

\* ten case variants of one sentence
TenVariants == [n \in 1..10 |-> CaseVariant(S_confirmation, n - 1)]

MaxEvidence == 4
EvidencePool == {S_blank, S_a_b, S_a_b_padded, S_c, S_d, S_task}

\* lists with an entry longer than EVIDENCE_MAX_LEN
LongEvidence ==
    { <<S_long>>, <<S_long_239, S_long>>, <<S_long, S_long_239>>,
      <<S_a_b, S_c, S_a_b_padded, S_long, S_long_239>> }

EvidenceInputs == Lists(EvidencePool, MaxEvidence) \cup {TenVariants} \cup LongEvidence

\* explicit_task, task_type and reason of a draft
TaskInputs ==
    { <<FALSE, Some(S_task), S_reason>>,
      <<TRUE, Some(S_task_padded), S_reason>>,
      <<TRUE, Some(S_blank), << >>>>,
      <<TRUE, None, S_blank>> }

EvidenceDrafts ==
    { LLMTriageOutput("other", S_key_example, t[1], t[2], Float(170), t[3], e,
                      Entities(<< >>, << >>, None)) :
        e \in EvidenceInputs, t \in TaskInputs }

\* ---- drafts that vary explicit_task and task_type

S_task_tabbed == <<"\t","r","e","p","l","y","\n">>

TaskTypeInputs ==
    {None, Some(<< >>), Some(S_blank), Some(S_task), Some(S_task_padded), Some(S_task_tabbed)}

TaskDrafts ==
    { LLMTriageOutput("other", S_key_example, explicit_task, task_type, Float(87), reason, e,
                      Entities(<< >>, << >>, None)) :
        explicit_task \in BOOLEAN, task_type \in TaskTypeInputs,
        reason \in {S_reason, S_blank}, e \in {<< >>, <<S_a_b>>} }

\* ---- drafts that vary the people list, and emails that vary the sender

MaxPeople == 2

PeoplePool ==
    { PersonRef(e, r) : e \in {S_sarah, S_sarah_upper, S_bob},
                        r \in {<< >>, ROLE_SENDER, S_recipient} }

PeopleInputs == Lists(PeoplePool, MaxPeople)

SenderDrafts ==
    { LLMTriageOutput("other", S_key_reply, FALSE, None, Float(87), S_reason, << >>,
                      Entities(p, << >>, None)) :
        p \in PeopleInputs }

SenderEmails ==
    { ParsedEmail(f, S_subject_re, Some(MONDAY_REF), None) :
        f \in {None, Some(<< >>), Some(S_sarah), Some(S_sarah_upper)} }

\* ---- date texts: a day part, a time part and a zone part

\* the two parts joined by a blank, an empty part left out
SpaceJoin(a, b) ==
    IF a = << >> THEN b ELSE IF b = << >> THEN a ELSE a \o <<" ">> \o b

Phrase(d, t, z) == SpaceJoin(SpaceJoin(d, t), z)

\* the weekday names as an email writes them, Monday first
DayNames ==
    <<<<"M","o","n","d","a","y">>, <<"T","u","e","s","d","a","y">>, <<"W","e","d","n","e","s","d","a","y">>, <<"T","h","u","r","s","d","a","y">>,
      <<"F","r","i","d","a","y">>, <<"S","a","t","u","r","d","a","y">>, <<"S","u","n","d","a","y">>>>

T_next == <<"n","e","x","t">>
T_today == <<"t","o","d","a","y">>
T_tomorrow == <<"t","o","m","o","r","r","o","w">>

\* the day part naming weekday wd (Monday is 0), after "next" when nx
WeekdayWord(wd, nx) == IF nx THEN SpaceJoin(T_next, DayNames[wd + 1]) ELSE DayNames[wd + 1]

WeekdayWords == { WeekdayWord(wd, nx) : wd \in 0..6, nx \in BOOLEAN }

T_2pm == <<"2","p","m">>
T_2_30_pm == <<"2",":","3","0"," ","p","m">>
T_14_30 == <<"1","4",":","3","0">>
T_noon == <<"n","o","o","n">>
T_25pm == <<"2","5","p","m">>
T_12_75pm == <<"1","2",":","7","5","p","m">>
T_25_00 == <<"2","5",":","0","0">>

T_PT == <<"P","T">>
T_ET == <<"E","T">>
T_UTC == <<"U","T","C">>

\* clock times in range
ClockTimes == {T_2pm, T_2_30_pm, T_14_30}

TzParts == {<< >>, T_PT, T_ET, T_UTC}

\* the texts that name a weekday, today or tomorrow
WeekdayTexts ==
    { Phrase(d, t, z) : d \in WeekdayWords \cup {T_today, T_tomorrow},
                        t \in {<< >>, T_2pm, T_25pm},
                        z \in {<< >>, T_PT, T_ET} }

\* all texts; a 12-hour time with an hour out of range stands next to a day
\* word only
DateTexts ==
    { Phrase(d, t, z) : d \in WeekdayWords \cup {T_today, T_tomorrow},
                        t \in ClockTimes \cup {<< >>, T_noon, T_25pm, T_12_75pm, T_25_00},
                        z \in TzParts }
    \cup { Phrase(<< >>, t, z) : t \in ClockTimes \cup {<< >>, T_noon, T_12_75pm, T_25_00},
                                 z \in TzParts }

\* sent_at of the email: every weekday, at several times of day and offsets
RefInstants ==
    { DateTime(d, c[1], c[2], Some(c[3])) :
        d \in 0..6, c \in {<<10, 0, -8>>, <<23, 30, -8>>, <<1, 15, 0>>, <<9, 45, 1>>} }

TYPE_MEETING_TIME == <<"m","e","e","t","i","n","g","_","t","i","m","e">>

WeekdayDrafts ==
    { LLMTriageOutput("other", S_key_reply, FALSE, None, Float(87), S_reason, << >>,
                      Entities(<< >>, <<DateRef(text, None, TYPE_MEETING_TIME)>>, None)) :
        text \in WeekdayTexts }

WeekdayEmails ==
    { ParsedEmail(Some(S_sarah), S_subject_re, Some(ref), None) : ref \in RefInstants }

\* ---- drafts with one date entity, in and out of the scheduling category

\* major_category and sub_action_key of a draft
CategoryInputs ==
    { <<SCHEDULE_AND_TIME, S_key_default>>,
      <<SCHEDULE_AND_TIME, S_key_reply>>,
      <<"other", S_key_example>>,
      <<"other", S_key_reply>> }

DateDrafts ==
    { LLMTriageOutput(c[1], c[2], FALSE, None, Float(87), S_reason, << >>,
                      Entities(<< >>, <<DateRef(text, None, TYPE_MEETING_TIME)>>, None)) :
        text \in DateTexts, c \in CategoryInputs }

DateEmails ==
    { ParsedEmail(Some(S_sarah), S_subject_re, Some(MONDAY_REF), None),
      ParsedEmail(Some(S_sarah), S_subject_multi, Some(DateTime(3, 23, 30, Some(-8))), None),
      ParsedEmail(Some(S_sarah), S_subject_regarding, Some(DateTime(6, 1, 15, Some(0))), None),
      ParsedEmail(Some(S_sarah), S_subject_re, None, None) }

\* ---- drafts with and without a meeting entity

K_schedule_confirm == <<"s","c","h","e","d","u","l","e","_","c","o","n","f","i","r","m","_","t","i","m","e">>
K_schedule_padded == <<" ","S","c","h","e","d","u","l","e"," ","m","e","e","t","i","n","g","!">>
K_schedule_bare == <<"s","c","h","e","d","u","l","e","_">>
K_reschedule == <<"r","e","s","c","h","e","d","u","l","e","_","c","a","l","l">>

\* sub_action_key of a draft: two keys whose canonical form starts with
\* SCHEDULE_, and four whose canonical form does not
MeetingKeys ==
    {K_schedule_confirm, K_schedule_padded, K_schedule_bare, K_reschedule, S_key_reply, << >>}

S_standup == <<"S","t","a","n","d","u","p">>
S_berlin == <<"E","u","r","o","p","e","/","B","e","r","l","i","n">>

\* 2024-01-31 09:00 +01:00, a start the inference output gave
ISO_GIVEN == IsoStr("datetime", 2, 9, 0, Some(1))

\* entities.meeting of a draft: absent, or each field absent, blank or set
MeetingInputs ==
    {None} \cup
    { Some(MeetingRef(topic, start_at, tz)) :
        topic \in {None, Some(<<" ">>), Some(S_standup)},
        start_at \in {None, Some(IsoBlank), Some(ISO_GIVEN), Some(IsoText)},
        tz \in {None, Some(<<" ">>), Some(S_berlin)} }

S_friday == DayNames[5]

\* entities.dates of a draft: none, or one entity whose text resolves with a
\* time of day, resolves to a date, or raises
MeetingDates ==
    {<< >>} \cup { <<DateRef(text, None, TYPE_MEETING_TIME)>> :
                    text \in {S_friday_2pm_pt, S_friday, Phrase(S_friday, T_25pm, << >>)} }

MeetingDrafts ==
    { LLMTriageOutput(c, k, FALSE, None, Float(87), S_reason, << >>, Entities(<< >>, dates, m)) :
        c \in {SCHEDULE_AND_TIME, "other"}, k \in MeetingKeys,
        dates \in MeetingDates, m \in MeetingInputs }

\* ---- drafts with several date entities, with and without an ISO value

MaxDates == 2

T_soon == <<"s","o","o","n">>
TYPE_DEADLINE == <<"d","e","a","d","l","i","n","e">>

\* 2024-02-07, a date the inference output gave
ISO_DATE_GIVEN == IsoStr("date", 9, 0, 0, None)

\* the date entities of the drafts: texts that resolve with a time of day,
\* to a date, not at all, or raise; ISO absent, blank, or given as a
\* datetime, a date or a text that is no ISO string
DatePool ==
    { DateRef(S_friday_2pm_pt, None, TYPE_MEETING_TIME),
      DateRef(S_friday, None, TYPE_DEADLINE),
      DateRef(Phrase(S_friday, T_25_00, << >>), None, TYPE_MEETING_TIME),
      DateRef(T_soon, None, TYPE_DEADLINE),
      DateRef(Phrase(T_today, T_noon, << >>), Some(IsoBlank), TYPE_MEETING_TIME),
      DateRef(S_friday_2pm_pt, Some(ISO_GIVEN), TYPE_MEETING_TIME),
      DateRef(T_tomorrow, Some(IsoText), TYPE_DEADLINE),
      DateRef(S_friday, Some(ISO_DATE_GIVEN), TYPE_DEADLINE),
      DateRef(Phrase(S_friday, T_25pm, << >>), None, TYPE_MEETING_TIME) }

DateListDrafts ==
    { LLMTriageOutput(SCHEDULE_AND_TIME, S_key_reply, FALSE, None, Float(87), S_reason, << >>,
                      Entities(<< >>, dates, None)) :
        dates \in Lists(DatePool, MaxDates) }

\* ---- request messages, and drafts that name ids of their own

ID_1 == "18c8a3f1b2d0a9a1"
ID_2 == "18c8a3f1b2d0a9a0"

\* id and threadId of the request message; threadId is Optional
MessageInputs ==
    { [id |-> i, threadId |-> th] : i \in {ID_1, ID_2}, th \in {None, Some(ID_1), Some(ID_2)} }

S_id_text == <<"m","e","s","s","a","g","e","_","i","d",":"," ","f","f","f","f","0","0","0","0","0","0","0","0","0","0","0","0">>
S_id_key == <<"t","h","r","e","a","d","_","i","d"," ","f","f","f","f","0","0","0","0","0","0","0","0","0","0","0","0">>

MessageDrafts ==
    { LLMTriageOutput(c, k, FALSE, None, Float(87), reason, evidence,
                      Entities(<< >>, << >>, None)) :
        c \in {SCHEDULE_AND_TIME, "other"}, k \in {S_key_reply, S_id_key},
        reason \in {S_reason, S_id_text}, evidence \in {<< >>, <<S_id_text>>} }

\* ---- urgency assessments

\* an assessment without deadline
NoUrgency == UrgencySignals(None, None)

\* deadline_text absent, blank, resolving with and without a time of day,
\* not resolving, or raising; reply_by absent or set
UrgencyInputs ==
    { UrgencySignals(deadline_text, reply_by) :
        deadline_text \in {None, Some(<<" ">>), Some(S_friday_2pm_pt), Some(S_friday),
                           Some(Phrase(T_tomorrow, T_noon, << >>)), Some(T_soon),
                           Some(Phrase(S_friday, T_25pm, << >>))},
        reply_by \in {None, Some(ISO_GIVEN), Some(IsoText)} }

\* emails with a sent_at, with an internal_date only, and with neither
UrgencyEmails ==
    DateEmails \cup {ParsedEmail(Some(S_sarah), S_subject_re, None, Some(DateTime(2, 18, 0, Some(0))))}

\* ---- direct calls of _extract_timezone and _infer_datetime

\* the abbreviations as an email writes them, in the order of
\* _TZ_ABBREV_TO_IANA
AbbrevNames ==
    <<<<"P","T">>, <<"P","S","T">>, <<"P","D","T">>,
      <<"M","T">>, <<"M","S","T">>, <<"M","D","T">>,
      <<"C","T">>, <<"C","S","T">>, <<"C","D","T">>,
      <<"E","T">>, <<"E","S","T">>, <<"E","D","T">>,
      <<"U","T","C">>, <<"G","M","T">>>>

\* first letter upper case, the rest lower case
Capitalized(s) == <<s[1]>> \o StrLower(SubSeq(s, 2, Len(s)))

T_or == <<"o","r">>

\* two abbreviations in one text, a before b
PairPart(a, b) == SpaceJoin(SpaceJoin(a, T_or), b)

\* an abbreviation in brackets
BracketPart(a) == <<"(">> \o a \o <<")">>

\* words that hold the letters of an abbreviation without being one
EmbeddedParts ==
    {<<"S","e","p","t">>, <<"e","t","c">>, <<"B","u","d","g","e","t">>, <<"e","m","p","t","y">>, <<"d","o","c","t","o","r">>,
     <<"g","m","t","i","m","e">>, <<"P","T","5">>, <<"E","T","_","x">>, <<"x","U","T","C">>}

ZoneParts ==
    { AbbrevNames[i] : i \in DOMAIN AbbrevNames }
    \cup { StrLower(AbbrevNames[i]) : i \in DOMAIN AbbrevNames }
    \cup { Capitalized(AbbrevNames[i]) : i \in DOMAIN AbbrevNames }
    \cup { BracketPart(AbbrevNames[i]) : i \in DOMAIN AbbrevNames }
    \cup { PairPart(AbbrevNames[i], AbbrevNames[j]) : i, j \in DOMAIN AbbrevNames }
    \cup EmbeddedParts \cup {<< >>}

\* the text of a call: "Friday 2pm" and a zone part
ZoneText(z) == Phrase(S_friday, T_2pm, z)

\* offsets of the reference instant: those of _OFFSET_TO_IANA, two others,
\* and none
ZoneOffsets == {Some(-8), Some(-7), Some(-6), Some(-5), Some(0), Some(1), Some(-4), None}

\* reference instants: Monday 2024-01-29 10:00 at each offset
ZoneCalls ==
    { [text |-> ZoneText(z), base_dt |-> DateTime(0, 10, 0, off)] :
        z \in ZoneParts, off \in ZoneOffsets }

\* ---- direct calls of _extract_time_components

DigitSeq == <<"0","1","2","3","4","5","6","7","8","9">>

\* n in 0..99 as a decimal numeral, and as a numeral of two digits
Spell(n) ==
    IF n < 10 THEN <<DigitSeq[n + 1]>> ELSE <<DigitSeq[(n \div 10) + 1], DigitSeq[(n % 10) + 1]>>
Spell2(n) == <<DigitSeq[(n \div 10) + 1], DigitSeq[(n % 10) + 1]>>

\* H(:MM)? am|pm as a text: mm is Optional, sp stands between the digits
\* and ap
Time12Text(h, mm, sp, ap) ==
    Spell(h) \o (IF mm = None THEN << >> ELSE <<":">> \o Spell2(mm[1])) \o sp \o ap

\* HH:MM as a text
Time24Text(h, m) == Spell(h) \o <<":">> \o Spell2(m)

Hours12 == {0, 1, 2, 9, 11, 12, 13, 25}
Minutes12 == {None, Some(0), Some(5), Some(30), Some(75)}
AmWords == {<<"a","m">>, <<"A","M">>}
PmWords == {<<"p","m">>, <<"P","m">>}
Hours24 == {0, 9, 14, 23, 24, 25}
Minutes24 == {0, 5, 59, 60, 75}

NoonTexts == {<<"n","o","o","n">>, <<"N","o","o","n">>, <<"a","f","t","e","r","n","o","o","n">>}
MidnightTexts == {<<"m","i","d","n","i","g","h","t">>, <<"M","i","d","n","i","g","h","t">>}
EodTexts == {<<"e","o","d">>, <<"E","O","D">>, <<"e","n","d"," ","o","f"," ","d","a","y">>, <<"b","y"," ","E","n","d"," ","o","f"," ","D","a","y">>}

\* texts without a time of day
NoTimeTexts == {<<"s","o","o","n">>, <<"F","r","i","d","a","y">>, <<"1","4","3","0">>, <<"1","0","0","p","m">>, <<"2",":","5">>, <<"2"," ","p",".","m",".">>, <<"p","m">>} \cup {<< >>}

TimeTexts ==
    { Time12Text(h, mm, sp, ap) : h \in Hours12, mm \in Minutes12, sp \in {<< >>, <<" ">>},
                                  ap \in AmWords \cup PmWords }
    \cup { Time24Text(h, m) : h \in Hours24, m \in Minutes24 }
    \cup NoonTexts \cup MidnightTexts \cup EodTexts \cup NoTimeTexts

TimeCalls == { [text |-> t, base_dt |-> MONDAY_REF] : t \in TimeTexts }

\* ---- direct calls of _subject_to_topic

MaxPrefixes == 3

PrefixSpellings_RE == <<"R","E",":"," ">>
PrefixSpellings_re == <<"r","e"," ",":"," ">>
PrefixSpellings_Fwd == <<"F","w","d",":">>
S_budget == <<"B","u","d","g","e","t",":"," ","R","e",":"," ","Q","3">>

\* reply and forward prefixes as mail programs and people write them
PrefixSpellings ==
    {<<"R","e",":">>,
     <<"R","E",":"," ">>,
     <<"r","e"," ",":"," ">>,
     <<"F","w","d",":">>,
     <<"F","W",":">>,
     <<" ","f","w"," ",":"," "," ">>}

\* what follows the prefixes; none of these starts with a prefix
SubjectRests ==
    {<<>>,
     <<"L","u","n","c","h">>,
     <<"R","e","g","a","r","d","i","n","g"," ","l","u","n","c","h">>,
     <<"F","w","d">>,
     <<"R","e">>,
     <<"B","u","d","g","e","t",":"," ","R","e",":"," ","Q","3">>,
     <<"r","e","-","s","c","h","e","d","u","l","e",":"," ","x"," ">>,
     <<"F","w","d"," ","r","e","p","o","r","t">>}

RECURSIVE Concat(_)
\* the strings of the list ss, one after the other
Concat(ss) == IF ss = << >> THEN << >> ELSE Head(ss) \o Concat(Tail(ss))

\* the subject with the prefixes ps before rest
SubjectOf(ps, rest) == Concat(ps) \o rest

\* the calls; rest notes what the prefixes of the subject precede
SubjectCalls ==
    { [text |-> SubjectOf(ps, rest), base_dt |-> MONDAY_REF, rest |-> rest] :
        ps \in Lists(PrefixSpellings, MaxPrefixes), rest \in SubjectRests }
    \cup { [text |-> <<" ">> \o SubjectOf(<<p>>, rest) \o <<" ">>, base_dt |-> MONDAY_REF,
             rest |-> rest] :
             p \in PrefixSpellings, rest \in SubjectRests }

\* ---- direct calls of _infer_datetime on texts with several weekday names

MaxDayNames == 3

\* the weekdays of a text in the order it names them (Monday is 0): every
\* two different days, and longer lists over every other day
DaySeqs ==
    { ds \in [1..2 -> 0..6] : ds[1] # ds[2] }
    \cup UNION { { ds \in [1..n -> {0, 2, 4, 6}] : \A i, j \in 1..n : i # j => ds[i] # ds[j] } :
                 n \in 3..MaxDayNames }

RECURSIVE DaysText(_)
\* "Friday or Monday or ..." for the weekdays ds
DaysText(ds) ==
    IF Len(ds) = 1 THEN DayNames[ds[1] + 1]
    ELSE SpaceJoin(SpaceJoin(DayNames[ds[1] + 1], T_or), DaysText(Tail(ds)))

DayCalls ==
    { [text |-> SpaceJoin(DaysText(ds), t), base_dt |-> DateTime(d, c[1], c[2], Some(c[3]))] :
        ds \in DaySeqs, t \in {<< >>, T_2pm}, d \in 0..6, c \in {<<10, 0, -8>>, <<1, 15, 0>>} }

\* ---- lists of ranked UI actions

MaxActions == 3

\* key and label of the action at each place of a list
ActionKeys == <<<<"r","e","p","l","y","_","c","o","n","f","i","r","m">>, <<" ","r","e","p","l","y","_","r","e","s","c","h","e","d","u","l","e">>,
                <<"s","n","o","o","z","e","_","1","h"," ">>, <<"a","r","c","h","i","v","e">>>>
ActionLabels == <<<<"C","o","n","f","i","r","m"," ","T","i","m","e">>, <<"P","r","o","p","o","s","e"," ","N","e","w"," ","T","i","m","e"," ">>,
                  <<" ","S","n","o","o","z","e"," ","1"," ","H","o","u","r">>, <<"A","r","c","h","i","v","e">>>>

RankInputs == {-2, 1, 5}
KindInputs == {<<"p","r","i","m","a","r","y">>, <<" ","D","a","n","g","e","r"," ">>, <<"u","r","g","e","n","t">>}

ActionInputs ==
    UNION { { [i \in 1..n |-> RecommendedAction(ActionKeys[i], ActionLabels[i], k[i], r[i])] :
                k \in [1..n -> KindInputs], r \in [1..n -> RankInputs] } :
            n \in 0..MaxActions }

\* ------------------------------------------------------------------------
\* Specification
\* ------------------------------------------------------------------------

\* no batch is run
NoBatch ==
    /\ args = [messages |-> << >>, concurrency |-> 1, limit |-> << >>]
    /\ messages = << >>
    /\ sem = << >>
    /\ tasks = << >>
    /\ out_f = << >>
    /\ err_f = << >>
    /\ major_counts = << >>
    /\ summary = << >>

\* a server that serves no request (the postprocessor is called directly)
ServerDown ==
    /\ llm_provider = "openai"
    /\ _request_counts = [triage |-> 0, total |-> 0]
    /\ _recent_errors = << >>
    /\ utc_now = 0
    /\ threads = << >>
    /\ pending = 0
    /\ requests = 0
    /\ recorded = << >>
    /\ answers = {}

InitWith(Drafts, Emails) ==
    /\ msg = GmailMessageInput
    /\ parsed_email \in Emails
    /\ draft \in Drafts
    /\ llm = draft
    /\ resp = None
    /\ runs = 0
    /\ draft_actions = << >>
    /\ recommended_actions = draft_actions
    /\ draft_urgency = NoUrgency
    /\ urgency_signals = draft_urgency
    /\ call = NoCall
    /\ ret = None
    /\ ServerDown
    /\ NoBatch

\* one call postprocess_triage(msg=msg, parsed_email=parsed_email, llm=llm, ...)
postprocess_triage ==
    /\ runs < MaxRuns
    /\ \E base_dt \in BaseDt(parsed_email) :
          \E r \in {Postprocess(msg, parsed_email, llm, base_dt)} :
              /\ llm' = r.llm
              /\ resp' = Some(r.resp)
    /\ runs' = runs + 1
    /\ UNCHANGED <<msg, parsed_email, draft, draft_actions, recommended_actions,
                   draft_urgency, urgency_signals, call, ret,
                   serverVars, batchVars>>

Next == postprocess_triage

InitSanitize == InitWith(SanitizeDrafts, {SampleEmail})
SpecSanitize == InitSanitize /\ [][Next]_vars

InitEvidence == InitWith(EvidenceDrafts, {SampleEmail})
SpecEvidence == InitEvidence /\ [][Next]_vars

InitTasks == InitWith(TaskDrafts, {SampleEmail})
SpecTasks == InitTasks /\ [][Next]_vars

InitSender == InitWith(SenderDrafts, SenderEmails)
SpecSender == InitSender /\ [][Next]_vars

InitWeekday == InitWith(WeekdayDrafts, WeekdayEmails)
SpecWeekday == InitWeekday /\ [][Next]_vars

InitDates == InitWith(DateDrafts, DateEmails)
SpecDates == InitDates /\ [][Next]_vars

InitMeeting == InitWith(MeetingDrafts, {SampleEmail})
SpecMeeting == InitMeeting /\ [][Next]_vars

InitDateLists == InitWith(DateListDrafts, DateEmails)
SpecDateLists == InitDateLists /\ [][Next]_vars

InitMessages ==
    /\ msg \in MessageInputs
    /\ parsed_email = SampleEmail
    /\ draft \in MessageDrafts
    /\ llm = draft
    /\ resp = None
    /\ runs = 0
    /\ draft_actions = << >>
    /\ recommended_actions = draft_actions
    /\ draft_urgency = NoUrgency
    /\ urgency_signals = draft_urgency
    /\ call = NoCall
    /\ ret = None
    /\ ServerDown
    /\ NoBatch

SpecMessages == InitMessages /\ [][Next]_vars

\* the recommended-actions step on the list of the decision
sanitize_recommended_actions ==
    /\ runs < MaxRuns
    /\ recommended_actions' = SanitizeActions(recommended_actions)
    /\ runs' = runs + 1
    /\ UNCHANGED <<msg, parsed_email, draft, llm, resp, draft_actions,
                   draft_urgency, urgency_signals, call, ret,
                   serverVars, batchVars>>

NextActions == sanitize_recommended_actions

InitActions ==
    /\ msg = GmailMessageInput
    /\ parsed_email = SampleEmail
    /\ draft = LLMTriageOutput("other", S_key_reply, FALSE, None, Float(87), S_reason, << >>,
                               Entities(<< >>, << >>, None))
    /\ llm = draft
    /\ resp = None
    /\ runs = 0
    /\ draft_actions \in ActionInputs
    /\ recommended_actions = draft_actions
    /\ draft_urgency = NoUrgency
    /\ urgency_signals = draft_urgency
    /\ call = NoCall
    /\ ret = None
    /\ ServerDown
    /\ NoBatch

SpecActions == InitActions /\ [][NextActions]_vars

\* the reply-by step on the urgency assessment of the decision
fill_reply_by ==
    /\ runs < MaxRuns
    /\ \E base_dt \in BaseDt(parsed_email) :
          \E r \in {FillReplyBy(urgency_signals, base_dt)} :
              /\ urgency_signals' = r.urgency
              /\ resp' = IF r.raised THEN Some(Raised) ELSE resp
    /\ runs' = runs + 1
    /\ UNCHANGED <<msg, parsed_email, draft, llm, draft_actions, recommended_actions,
                   draft_urgency, call, ret,
                   serverVars, batchVars>>

NextUrgency == fill_reply_by

InitUrgency ==
    /\ msg = GmailMessageInput
    /\ parsed_email \in UrgencyEmails
    /\ draft = LLMTriageOutput("other", S_key_reply, FALSE, None, Float(87), S_reason, << >>,
                               Entities(<< >>, << >>, None))
    /\ llm = draft
    /\ resp = None
    /\ runs = 0
    /\ draft_actions = << >>
    /\ recommended_actions = draft_actions
    /\ draft_urgency \in UrgencyInputs
    /\ urgency_signals = draft_urgency
    /\ call = NoCall
    /\ ret = None
    /\ ServerDown
    /\ NoBatch

SpecUrgency == InitUrgency /\ [][NextUrgency]_vars

\* a direct call _extract_timezone(call.text, call.base_dt)
call_extract_timezone ==
    /\ ret' = Some([fn |-> "_extract_timezone",
                    value |-> _extract_timezone(call.text, call.base_dt)])
    /\ UNCHANGED <<msg, parsed_email, draft, llm, resp, runs, draft_actions,
                   recommended_actions, draft_urgency, urgency_signals, call,
                   serverVars, batchVars>>

\* a direct call _infer_datetime(call.text, call.base_dt)
call_infer_datetime ==
    /\ ret' = Some([fn |-> "_infer_datetime",
                    value |-> _infer_datetime(call.text, call.base_dt)])
    /\ UNCHANGED <<msg, parsed_email, draft, llm, resp, runs, draft_actions,
                   recommended_actions, draft_urgency, urgency_signals, call,
                   serverVars, batchVars>>

NextZones == call_extract_timezone \/ call_infer_datetime

\* the state before a direct call with arguments from Calls
InitCall(Calls) ==
    /\ msg = GmailMessageInput
    /\ parsed_email = SampleEmail
    /\ draft = LLMTriageOutput("other", S_key_reply, FALSE, None, Float(87), S_reason, << >>,
                               Entities(<< >>, << >>, None))
    /\ llm = draft
    /\ resp = None
    /\ runs = 0
    /\ draft_actions = << >>
    /\ recommended_actions = draft_actions
    /\ draft_urgency = NoUrgency
    /\ urgency_signals = draft_urgency
    /\ call \in Calls
    /\ ret = None
    /\ ServerDown
    /\ NoBatch

InitZones == InitCall(ZoneCalls)
SpecZones == InitZones /\ [][NextZones]_vars

\* a direct call _extract_time_components(call.text)
call_extract_time_components ==
    /\ ret' = Some([fn |-> "_extract_time_components",
                    value |-> _extract_time_components(call.text)])
    /\ UNCHANGED <<msg, parsed_email, draft, llm, resp, runs, draft_actions,
                   recommended_actions, draft_urgency, urgency_signals, call,
                   serverVars, batchVars>>

NextTimes == call_extract_time_components

InitTimes == InitCall(TimeCalls)
SpecTimes == InitTimes /\ [][NextTimes]_vars

\* a direct call _subject_to_topic(call.text)
call_subject_to_topic ==
    /\ ret' = Some([fn |-> "_subject_to_topic", value |-> _subject_to_topic(call.text)])
    /\ UNCHANGED <<msg, parsed_email, draft, llm, resp, runs, draft_actions,
                   recommended_actions, draft_urgency, urgency_signals, call,
                   serverVars, batchVars>>

NextTopics == call_subject_to_topic

InitTopics == InitCall(SubjectCalls)
SpecTopics == InitTopics /\ [][NextTopics]_vars

NextDays == call_infer_datetime

InitDays == InitCall(DayCalls)
SpecDays == InitDays /\ [][NextDays]_vars

\* ------------------------------------------------------------------------
\* The HTTP server: rd_ai_triage, _record_error and the module globals
\* ------------------------------------------------------------------------

_MAX_ERRORS == 50
ERROR_MAX_LEN == 500

TRIAGE_PATH == <<"/","r","d","/","a","p","i","/","v","1","/","a","i","/","t","r","i","a","g","e">>
S_failed_to_triage == <<"f","a","i","l","e","d","_","t","o","_","t","r","i","a","g","e",":"," ">>

\* an exception: its class and str(e); NoExc when nothing was raised
PyExc(type, message) == [type |-> type, message |-> message]
NoExc == PyExc("none", << >>)

\* the message of LocalClient.parse
STUB_MESSAGE == <<"L","o","c","a","l"," ","m","o","d","e","l"," ","c","l","i","e","n","t"," ","i","s"," ","a"," ","s","t","u","b","."," ","I","m","p","l","e","m","e","n","t"," ","t","h","i","s"," ","w","i","t","h"," ","y","o","u","r"," ","o","w","n"," ","i","n","f","e","r","e","n","c","e"," ","s","t","a","c","k",".">>
E_hour == <<"h","o","u","r"," ","m","u","s","t"," ","b","e"," ","i","n"," ","0",".",".","2","3">>

\* what _pipeline.triage(payload) can do: the local client always raises
\* NotImplementedError; with the OpenAI client the call returns, or the
\* client or a later step raises
PipelineOutcomes(provider) ==
    IF provider = "local" THEN {PyExc("NotImplementedError", STUB_MESSAGE)}
    ELSE {NoExc, PyExc("ValueError", E_hour)}

HttpResponse(status, detail) == [status |-> status, detail |-> detail]

\* faulty variant: every exception is answered as a failed triage
HttpAnswer_always_500(exc) ==
    IF exc = NoExc THEN HttpResponse(200, << >>)
    ELSE HttpResponse(500, S_failed_to_triage \o exc.message)

\* what the handler answers: the response, or the HTTPException of the
\* except clause that catches exc
HttpAnswer(exc) ==
    IF exc = NoExc THEN HttpResponse(200, << >>)
    ELSE IF exc.type = "NotImplementedError" THEN HttpResponse(501, exc.message)
    ELSE HttpResponse(500, S_failed_to_triage \o exc.message)

\* s[:n]
Take(s, n) == SubSeq(s, 1, IF Len(s) < n THEN Len(s) ELSE n)

\* the dict _record_error appends
ErrorRecord(timestamp, endpoint, error) ==
    [timestamp |-> timestamp, endpoint |-> endpoint, error |-> Take(error, ERROR_MAX_LEN)]

\* faulty variant: the newest record is dropped
PopOldest_newest(errors) == SubSeq(errors, 1, Len(errors) - 1)

\* _recent_errors.pop(0)
PopOldest(errors) == Tail(errors)

\* a worker thread outside the handler
Idle == [pc |-> "idle", req |-> 0, reg |-> 0, exc |-> NoExc]

\* the idle workers; which of them takes a request makes no difference, so
\* the first one does
IdleWorkers == { u \in DOMAIN threads : threads[u].pc = "idle" }

\* the request reaches the handler on an idle worker
rd_ai_triage(t) ==
    /\ IdleWorkers # {}
    /\ t = Min(IdleWorkers)
    /\ pending > 0
    /\ pending' = pending - 1
    /\ requests' = requests + 1
    /\ threads' = [threads EXCEPT ![t] = [pc |-> "load_triage", req |-> requests + 1,
                                          reg |-> 0, exc |-> NoExc]]
    /\ UNCHANGED <<llm_provider, _request_counts, _recent_errors, utc_now, recorded, answers,
                   triageVars, batchVars>>

\* _request_counts["triage"] += 1: the read
load_triage(t) ==
    /\ threads[t].pc = "load_triage"
    /\ threads' = [threads EXCEPT ![t].pc = "store_triage", ![t].reg = _request_counts.triage]
    /\ UNCHANGED <<llm_provider, _request_counts, _recent_errors, utc_now, pending, requests,
                   recorded, answers, triageVars, batchVars>>

\* _request_counts["triage"] += 1: the write
store_triage(t) ==
    /\ threads[t].pc = "store_triage"
    /\ _request_counts' = [_request_counts EXCEPT !.triage = threads[t].reg + 1]
    /\ threads' = [threads EXCEPT ![t].pc = "load_total"]
    /\ UNCHANGED <<llm_provider, _recent_errors, utc_now, pending, requests, recorded, answers,
                   triageVars, batchVars>>

\* _request_counts["total"] += 1: the read
load_total(t) ==
    /\ threads[t].pc = "load_total"
    /\ threads' = [threads EXCEPT ![t].pc = "store_total", ![t].reg = _request_counts.total]
    /\ UNCHANGED <<llm_provider, _request_counts, _recent_errors, utc_now, pending, requests,
                   recorded, answers, triageVars, batchVars>>

\* _request_counts["total"] += 1: the write
store_total(t) ==
    /\ threads[t].pc = "store_total"
    /\ _request_counts' = [_request_counts EXCEPT !.total = threads[t].reg + 1]
    /\ threads' = [threads EXCEPT ![t].pc = "triage"]
    /\ UNCHANGED <<llm_provider, _recent_errors, utc_now, pending, requests, recorded, answers,
                   triageVars, batchVars>>

\* the thread after _pipeline.triage(payload) ended with exc: back outside
\* the handler when it returned, in the except clause when it raised
AfterTriage(frame, exc) ==
    IF exc = NoExc THEN Idle ELSE [frame EXCEPT !.pc = "append", !.exc = exc]

\* the answers with the response of a call that returned
WithReturn(frame, exc) ==
    IF exc = NoExc
    THEN answers \cup {[req |-> frame.req, exc |-> exc, answer |-> HttpAnswer(exc)]}
    ELSE answers

\* out = _pipeline.triage(payload); return out.response
pipeline_triage(t) ==
    /\ threads[t].pc = "triage"
    /\ \E exc \in PipelineOutcomes(llm_provider) :
          /\ threads' = [threads EXCEPT ![t] = AfterTriage(threads[t], exc)]
          /\ answers' = WithReturn(threads[t], exc)
    /\ UNCHANGED <<llm_provider, _request_counts, _recent_errors, utc_now, pending, requests,
                   recorded, triageVars, batchVars>>

\* _record_error: _recent_errors.append({...})
_record_error_append(t) ==
    /\ threads[t].pc = "append"
    /\ \E r \in {ErrorRecord(utc_now, TRIAGE_PATH, threads[t].exc.message)} :
          /\ _recent_errors' = Append(_recent_errors, r)
          /\ recorded' = Append(recorded, [req |-> threads[t].req, rec |-> r])
    /\ utc_now' = utc_now + 1
    /\ threads' = [threads EXCEPT ![t].pc = "while"]
    /\ UNCHANGED <<llm_provider, _request_counts, pending, requests, answers, triageVars, batchVars>>

\* _record_error: while len(_recent_errors) > _MAX_ERRORS
_record_error_while(t) ==
    /\ threads[t].pc = "while"
    /\ threads' = [threads EXCEPT
                      ![t].pc = IF Len(_recent_errors) > _MAX_ERRORS THEN "pop" ELSE "raise"]
    /\ UNCHANGED <<llm_provider, _request_counts, _recent_errors, utc_now, pending, requests,
                   recorded, answers, triageVars, batchVars>>

\* _record_error: _recent_errors.pop(0)
_record_error_pop(t) ==
    /\ threads[t].pc = "pop"
    /\ _recent_errors # << >>
    /\ _recent_errors' = PopOldest(_recent_errors)
    /\ threads' = [threads EXCEPT ![t].pc = "while"]
    /\ UNCHANGED <<llm_provider, _request_counts, utc_now, pending, requests, recorded, answers,
                   triageVars, batchVars>>

\* raise HTTPException(...)
raise_HTTPException(t) ==
    /\ threads[t].pc = "raise"
    /\ answers' = answers \cup {[req |-> threads[t].req, exc |-> threads[t].exc,
                                 answer |-> HttpAnswer(threads[t].exc)]}
    /\ threads' = [threads EXCEPT ![t] = Idle]
    /\ UNCHANGED <<llm_provider, _request_counts, _recent_errors, utc_now, pending, requests,
                   recorded, triageVars, batchVars>>

NextServer ==
    \/ \E t \in DOMAIN threads : rd_ai_triage(t)
    \/ \E t \in DOMAIN threads : load_triage(t)
    \/ \E t \in DOMAIN threads : store_triage(t)
    \/ \E t \in DOMAIN threads : load_total(t)
    \/ \E t \in DOMAIN threads : store_total(t)
    \/ \E t \in DOMAIN threads : pipeline_triage(t)
    \/ \E t \in DOMAIN threads : _record_error_append(t)
    \/ \E t \in DOMAIN threads : _record_error_while(t)
    \/ \E t \in DOMAIN threads : _record_error_pop(t)
    \/ \E t \in DOMAIN threads : raise_HTTPException(t)

\* the triage state of a server run: the request bodies play no part
NoTriage ==
    /\ msg = GmailMessageInput
    /\ parsed_email = SampleEmail
    /\ draft = LLMTriageOutput("other", S_key_reply, FALSE, None, Float(87), S_reason, << >>,
                               Entities(<< >>, << >>, None))
    /\ llm = draft
    /\ resp = None
    /\ runs = 0
    /\ draft_actions = << >>
    /\ recommended_actions = draft_actions
    /\ draft_urgency = NoUrgency
    /\ urgency_signals = draft_urgency
    /\ call = NoCall
    /\ ret = None

\* the record of the n-th of the failed requests a local server has answered
StubRecord(n) == ErrorRecord(n - 1, TRIAGE_PATH, STUB_MESSAGE)

\* a server with the local client and `workers` threads that has answered n
\* requests one after the other, with `burst` requests still to come; the
\* history of records and answers is kept from here on
ServerAfter(n, workers, burst) ==
    /\ llm_provider = "local"
    /\ _request_counts = [triage |-> n, total |-> n]
    /\ _recent_errors = [i \in 1..n |-> StubRecord(i)]
    /\ utc_now = n
    /\ threads = [t \in 1..workers |-> Idle]
    /\ pending = burst
    /\ requests = n
    /\ recorded = << >>
    /\ answers = {}

\* a server just started
ServerStarted(provider, workers, burst) ==
    /\ llm_provider = provider
    /\ _request_counts = [triage |-> 0, total |-> 0]
    /\ _recent_errors = << >>
    /\ utc_now = 0
    /\ threads = [t \in 1..workers |-> Idle]
    /\ pending = burst
    /\ requests = 0
    /\ recorded = << >>
    /\ answers = {}

\* ---- one worker, the local client, requests one after the other

MaxErrors == 52

InitErrors == NoTriage /\ NoBatch /\ ServerStarted("local", 1, MaxErrors)
SpecErrors == InitErrors /\ [][NextServer]_vars

\* ---- several workers and a burst of requests, on a server just started
\* with either client, or on a local server whose buffer is full

MaxThreads == 2
MaxRequests == 2

InitThreads ==
    /\ NoTriage
    /\ NoBatch
    /\ \/ \E provider \in {"local", "openai"} : ServerStarted(provider, MaxThreads, MaxRequests)
       \/ ServerAfter(_MAX_ERRORS, MaxThreads, MaxRequests)
SpecThreads == InitThreads /\ [][NextServer]_vars

\* ------------------------------------------------------------------------
\* The batch runner: run_batch and post_one (src/scripts/batch_call_api.py)
\* ------------------------------------------------------------------------

BODY_MAX_LEN == 4000

\* messages[:limit] for an int limit
SliceTo(s, limit) ==
    IF limit >= 0 THEN SubSeq(s, 1, IF limit < Len(s) THEN limit ELSE Len(s))
    ELSE SubSeq(s, 1, IF Len(s) + limit > 0 THEN Len(s) + limit ELSE 0)

\* faulty variant: the limit is not applied
LimitMessages_all(s, limit) == s

\* the messages the runner works on
LimitMessages(s, limit) == IF limit # None THEN SliceTo(s, limit[1]) ELSE s

BatchResult(ok, input_message_id, status_code, response, error) ==
    [ok |-> ok, input_message_id |-> input_message_id, status_code |-> status_code,
     response |-> response, error |-> error]

S_HTTP == <<"H","T","T","P"," ">>

\* str(n) for a status code
StatusStr(n) == <<DigitSeq[(n \div 100) + 1], DigitSeq[((n \div 10) % 10) + 1], DigitSeq[(n % 10) + 1]>>

\* the body of a response: r.text, and of r.json() the major_category
Body(text_, major_category) == [text |-> text_, major_category |-> major_category]

\* what awaiting client.post(...) gives: a response [status, body, valid],
\* valid when EmailTriageResponse accepts r.json(), or an exception raised
\* by the client
HttpReply(status, body, valid) ==
    [t |-> "reply", status |-> status, body |-> body, valid |-> valid, message |-> << >>]
HttpRaised(message) ==
    [t |-> "raised", status |-> 0, body |-> Body(<< >>, None), valid |-> FALSE, message |-> message]

S_validation_error == <<"v","a","l","i","d","a","t","i","o","n"," ","e","r","r","o","r">>

\* faulty variant: a response that does not validate counts as a success
ResultOf_unvalidated(id, r) ==
    CASE r.t = "raised" -> BatchResult(FALSE, id, None, None, Some(r.message))
      [] r.status >= 400 ->
            BatchResult(FALSE, id, Some(r.status), None,
                        Some(S_HTTP \o StatusStr(r.status) \o <<":", " ">> \o Take(r.body.text, BODY_MAX_LEN)))
      [] OTHER -> BatchResult(TRUE, id, Some(r.status), Some(r.body), None)

\* the BatchResult post_one returns for the message with this id when the
\* client answers r
ResultOf(id, r) ==
    CASE r.t = "raised" -> BatchResult(FALSE, id, None, None, Some(r.message))
      [] r.status >= 400 ->
            BatchResult(FALSE, id, Some(r.status), None,
                        Some(S_HTTP \o StatusStr(r.status) \o <<":", " ">> \o Take(r.body.text, BODY_MAX_LEN)))
      [] ~r.valid -> BatchResult(FALSE, id, None, None, Some(S_validation_error))
      [] OTHER -> BatchResult(TRUE, id, Some(r.status), Some(r.body), None)

\* res.ok and res.response; the dict of a validated response is not empty
Truthy(res) == res.ok /\ res.response # None

\* the error record of the worker
ErrRecord(res) ==
    [input_message_id |-> res.input_message_id, status_code |-> res.status_code,
     error |-> res.error]

\* a line of a file: the JSON value, and the worker that wrote it
Line(i, value) == [task |-> i, value |-> value]

NoResult == BatchResult(FALSE, None, None, None, None)

\* a worker before its request: no reply, no result
NewTask == [pc |-> "acquire", reply |-> HttpRaised(<< >>), res |-> NoResult]

\* run_batch up to the gather: the limit, the semaphore, the files, and one
\* worker for each message
run_batch ==
    /\ sem = None
    /\ summary = None
    /\ args.concurrency >= 0     \* asyncio.Semaphore raises ValueError below 0
    /\ messages' = LimitMessages(args.messages, args.limit)
    /\ sem' = Some(args.concurrency)
    /\ tasks' = [i \in DOMAIN messages' |-> NewTask]
    /\ out_f' = << >>
    /\ err_f' = << >>
    /\ major_counts' = << >>
    /\ UNCHANGED <<args, summary, triageVars, serverVars>>

\* worker: async with sem, until the request is sent
worker_acquire(i) ==
    /\ tasks[i].pc = "acquire"
    /\ sem[1] > 0
    /\ sem' = Some(sem[1] - 1)
    /\ tasks' = [tasks EXCEPT ![i].pc = "post"]
    /\ UNCHANGED <<args, messages, out_f, err_f, major_counts, summary, triageVars, serverVars>>

\* worker: res = await post_one(...), and the semaphore is released
worker_post_one(i, r) ==
    /\ tasks[i].pc = "post"
    /\ tasks' = [tasks EXCEPT ![i] = [pc |-> "write", reply |-> r,
                                      res |-> ResultOf(Some(messages[i]), r)]]
    /\ sem' = Some(sem[1] + 1)
    /\ UNCHANGED <<args, messages, out_f, err_f, major_counts, summary, triageVars, serverVars>>

\* Counter[key] += 1 on a Counter kept as the list of the keys counted
Tally(counter, key) == Append(counter, key)

\* worker: the line written to one of the two files, and the tally
worker_write(i) ==
    /\ tasks[i].pc = "write"
    /\ out_f' = IF Truthy(tasks[i].res)
                THEN Append(out_f, Line(i, tasks[i].res.response[1])) ELSE out_f
    /\ major_counts' = IF Truthy(tasks[i].res)
                       THEN Tally(major_counts, tasks[i].res.response[1].major_category) ELSE major_counts
    /\ err_f' = IF Truthy(tasks[i].res)
                THEN err_f ELSE Append(err_f, Line(i, ErrRecord(tasks[i].res)))
    /\ tasks' = [tasks EXCEPT ![i].pc = "done"]
    /\ UNCHANGED <<args, messages, sem, summary, triageVars, serverVars>>

\* the counts of the summary
Summary(total, ok_total) == [total |-> total, ok_total |-> ok_total, fail_total |-> total - ok_total]

\* after the gather: the printed summary
print_summary ==
    /\ sem # None
    /\ summary = None
    /\ \A i \in DOMAIN tasks : tasks[i].pc = "done"
    /\ summary' = Some(Summary(Len(messages), Len(major_counts)))
    /\ UNCHANGED <<args, messages, sem, tasks, out_f, err_f, major_counts, triageVars, serverVars>>

\* ---- batches

MaxMessages == 3

M_1 == <<"1","8","c","8","a","1">>
M_2 == <<"1","8","c","8","a","2">>

\* the input file: up to MaxMessages messages, as their Gmail ids
BatchMessages == { [i \in 1..n |-> IF i % 2 = 1 THEN M_1 ELSE M_2] : n \in 0..MaxMessages }

S_json == <<"{",".",".",".","}">>
S_boom == <<"b","o","o","m">>
S_timed_out == <<"t","i","m","e","d"," ","o","u","t">>

\* what the endpoint can answer: a valid triage, a body that does not
\* validate, an HTTP error, or no answer in time
PostReplies ==
    { HttpReply(200, Body(S_json, Some(SCHEDULE_AND_TIME)), TRUE),
      HttpReply(200, Body(S_json, Some("other")), TRUE),
      HttpReply(200, Body(S_json, None), FALSE),
      HttpReply(500, Body(S_boom, None), FALSE),
      HttpRaised(S_timed_out) }

NextBatch ==
    \/ run_batch
    \/ \E i \in DOMAIN tasks : worker_acquire(i)
    \/ \E i \in DOMAIN tasks : \E r \in PostReplies : worker_post_one(i, r)
    \/ \E i \in DOMAIN tasks : worker_write(i)
    \/ print_summary

InitBatch ==
    /\ NoTriage
    /\ ServerDown
    /\ args \in { [messages |-> ms, concurrency |-> c, limit |-> l] :
                    ms \in BatchMessages, c \in 1..2,
                    l \in {None, Some(0), Some(2), Some(MaxMessages + 1), Some(-1)} }
    /\ messages = args.messages
    /\ sem = None
    /\ tasks = << >>
    /\ out_f = << >>
    /\ err_f = << >>
    /\ major_counts = << >>
    /\ summary = None
SpecBatch == InitBatch /\ [][NextBatch]_vars

\* ------------------------------------------------------------------------
\* Properties of the sanitizer
\* ------------------------------------------------------------------------

Called == runs >= 1

\* the inputs float() rejects
NonNumeric(x) == x.t = "none" \/ (x.t = "str" /\ x.s \in {S_not_a_number, << >>})

\* C1: the confidence clamp returns a value in [0,1]: below 0 gives 0.0,
\* above 1 gives 1.0, a value inside the range is returned unchanged, a
\* non-numeric or unparsable input gives 0.0, and the confidence of the
\* response is within [0,1].
C1_ConfidenceClamped ==
    Called =>
        /\ llm.confidence.t = "float"
        /\ llm.confidence.v \in 0..100
        /\ (draft.confidence.t = "float" /\ draft.confidence.v < 0)
              => llm.confidence = Float(0)
        /\ (draft.confidence.t = "float" /\ draft.confidence.v > 100)
              => llm.confidence = Float(100)
        /\ (draft.confidence.t = "float" /\ draft.confidence.v \in 0..100)
              => llm.confidence = draft.confidence
        /\ NonNumeric(draft.confidence) => llm.confidence = Float(0)
        /\ draft.confidence = Float(-500) => llm.confidence = Float(0)
        /\ draft.confidence = Float(170) => llm.confidence = Float(100)
        /\ resp[1].t = "response"
              => resp[1].confidence.t = "float" /\ resp[1].confidence.v \in 0..100

C1_Witness ==
    /\ Called
    /\ draft.confidence = Float(170)
    /\ llm.confidence = Float(100)
    /\ resp[1].t = "response"

\* the maximal runs of alphanumeric characters of s, in order
RECURSIVE AlnumRuns(_)
AlnumRuns(s) ==
    IF s = << >> THEN << >>
    ELSE IF ~IsAlnum(s[1]) THEN AlnumRuns(Tail(s))
    ELSE LET n == Min({ i \in 1..(Len(s) + 1) : i = Len(s) + 1 \/ ~IsAlnum(s[i]) })
         IN  <<SubSeq(s, 1, n - 1)>> \o AlnumRuns(SubSeq(s, n, Len(s)))

\* a non-empty token of A-Z, 0-9 and single inner underscores
CanonicalToken(k) ==
    /\ k # << >>
    /\ \A i \in 1..Len(k) : IsUpperLetter(k[i]) \/ IsDigit(k[i]) \/ k[i] = "_"
    /\ k[1] # "_"
    /\ k[Len(k)] # "_"
    /\ \A i \in 1..(Len(k) - 1) : ~(k[i] = "_" /\ k[i + 1] = "_")

S_SCHEDULE_CONFIRM == <<"S","C","H","E","D","U","L","E","_","C","O","N","F","I","R","M">>

\* C2: the canonical action key is "OTHER" for an input without any
\* alphanumeric character, and otherwise a token of A-Z, 0-9 and single inner
\* underscores whose pieces are the upper-cased alphanumeric runs of the
\* input, one underscore for each run of other characters between them.
C2_KeyCanonical ==
    Called =>
        LET k == llm.sub_action_key
            d == draft.sub_action_key
        IN  /\ AlnumRuns(d) = << >> => k = KEY_OTHER
            /\ AlnumRuns(d) # << >> =>
                  /\ CanonicalToken(k)
                  /\ AlnumRuns(k) = [i \in 1..Len(AlnumRuns(d)) |-> StrUpper(AlnumRuns(d)[i])]
            /\ d = S_key_example => k = S_SCHEDULE_CONFIRM
            /\ d \in {<< >>, S_key_underscores} => k = KEY_OTHER

C2_Witness ==
    /\ Called
    /\ draft.sub_action_key = S_key_example
    /\ llm.sub_action_key = S_SCHEDULE_CONFIRM

\* the fields the "Normalize and clamp" block of postprocess_triage writes
SanitizedFields(l) == <<l.confidence, l.sub_action_key, l.reason, l.evidence, l.task_type>>

\* C3: sanitization is idempotent: applying the sanitizing steps to a
\* decision that has already been sanitized yields an identical decision.
C3_SanitizeIdempotent ==
    [][Called => SanitizedFields(llm') = SanitizedFields(llm)]_vars

\* pairwise different when compared case-insensitively
DistinctLower(ev) ==
    \A i, j \in DOMAIN ev : i # j => StrLower(ev[i]) # StrLower(ev[j])

\* C4: after sanitization the evidence list has at most 3 entries, every
\* entry is non-empty and at most 240 characters long, no two entries are
\* equal when compared case-insensitively, and ten case variants of the
\* same sentence yield exactly one entry.
C4_EvidenceBounded ==
    Called =>
        /\ Len(llm.evidence) <= 3
        /\ \A i \in DOMAIN llm.evidence :
              Len(llm.evidence[i]) >= 1 /\ Len(llm.evidence[i]) <= 240
        /\ DistinctLower(llm.evidence)
        /\ draft.evidence = TenVariants => Len(llm.evidence) = 1
        /\ resp[1].t = "response" => resp[1].evidence = llm.evidence

C4_Witness ==
    /\ Called
    /\ draft.evidence = TenVariants
    /\ llm.evidence = <<S_confirmation>>

\* the email names its sender
SenderKnown == parsed_email.from_email # None /\ parsed_email.from_email[1] # << >>

\* the entries of people with the sender's address, compared case-insensitively
SenderEntries(people) ==
    { i \in DOMAIN people : StrLower(people[i].email) = StrLower(parsed_email.from_email[1]) }

\* C7: sender backfill is idempotent: after any number of applications the
\* people list has no more entries with the sender's address than after the
\* first one (one, or as many as the draft carried), and an application
\* after the first changes nothing.
C7_SenderIdempotent ==
    /\ [](Called /\ SenderKnown =>
            Cardinality(SenderEntries(llm.entities.people))
                <= Max({1, Cardinality(SenderEntries(draft.entities.people))}))
    /\ [][Called => llm'.entities.people = llm.entities.people]_vars

C7_Witness ==
    /\ runs >= 2
    /\ SenderKnown
    /\ SenderEntries(draft.entities.people) = {}
    /\ Cardinality(SenderEntries(llm.entities.people)) = 1

\* people has an entry with the sender's address and role "sender"
HasSenderEntry(people) ==
    \E i \in SenderEntries(people) : people[i].role = ROLE_SENDER

FirstEntryHasOtherRole ==
    /\ SenderEntries(draft.entities.people) # {}
    /\ draft.entities.people[Min(SenderEntries(draft.entities.people))].role
          \notin {<< >>, ROLE_SENDER}

WithSenderRole(i) == [draft.entities.people EXCEPT ![i].role = ROLE_SENDER]

\* the entries of the draft with the sender's address and an empty role
EmptyRoleEntries ==
    { i \in SenderEntries(draft.entities.people) : draft.entities.people[i].role = << >> }

\* what the backfill does without an entry for the sender, and without a
\* known sender
InsertedOrUntouched ==
    /\ ~SenderKnown => llm.entities.people = draft.entities.people
    /\ (SenderKnown /\ SenderEntries(draft.entities.people) = {}) =>
          llm.entities.people
              = <<PersonRef(parsed_email.from_email[1], ROLE_SENDER)>> \o draft.entities.people

\* no entry is removed or moved, no address and no non-empty role changes
EntriesKept ==
    \E k \in {0, 1} :
        /\ Len(llm.entities.people) = Len(draft.entities.people) + k
        /\ \A i \in DOMAIN draft.entities.people :
              /\ llm.entities.people[i + k].email = draft.entities.people[i].email
              /\ draft.entities.people[i].role # << >>
                    => llm.entities.people[i + k].role = draft.entities.people[i].role

DraftDate == draft.entities.dates[1]
LlmDate == llm.entities.dates[1]

Responded == Called /\ resp[1].t = "response"

\* UTC offset of the zone the resolver works in: the zone the text names,
\* else the zone of the table for the offset of the reference instant, else
\* that offset itself
ExpectedOffset(z, ref_off) ==
    CASE z = T_PT -> -8
      [] z = T_ET -> -5
      [] z = T_UTC -> 0
      [] OTHER -> IF ref_off \in {-8, -7} THEN -8 ELSE ref_off

\* the day of the reference instant on the wall clock of offset off
RefLocalDay(ref, off) ==
    (ref.day * 1440 + ref.hour * 60 + ref.minute + (off - ref.off[1]) * 60) \div 1440

\* the days from weekday `from` forward to the next weekday `target`
ForwardDelta(target, from) == CHOOSE k \in 1..7 : (from + k) % 7 = target

\* the written date lies delta days after the reference date, delta as the
\* claim states it
WeekdayAhead(wd, nx, ref_day, day) ==
    /\ day - ref_day = ForwardDelta(wd, ref_day % 7) + (IF nx THEN 7 ELSE 0)
    /\ ~nx => (day - ref_day) \in 1..7
    /\ nx => (day - ref_day) \in 8..14

\* C5: a text that names a weekday (and neither today nor tomorrow)
\* resolves to the date (target weekday - reference weekday) mod 7 days
\* after the reference date, 0 replaced by 7, plus 7 days when the text has
\* the word "next": 1..7 days ahead without "next", 8..14 with it, never the
\* reference day; Monday + "Friday" is 4 days later and Monday + "next
\* Friday" 11 days later.  The reference date is the date of the reference
\* instant in the zone the resolver works in.
C5_WeekdayAhead ==
    Responded =>
        /\ \A wd \in 0..6, nx \in BOOLEAN, t \in {<< >>, T_2pm}, z \in {<< >>, T_PT, T_ET} :
              DraftDate.text = Phrase(WeekdayWord(wd, nx), t, z) =>
                  /\ LlmDate.iso # None
                  /\ WeekdayAhead(wd, nx,
                                  RefLocalDay(parsed_email.sent_at[1],
                                              ExpectedOffset(z, parsed_email.sent_at[1].off[1])),
                                  LlmDate.iso[1].day)
        /\ (parsed_email.sent_at = Some(MONDAY_REF) /\ DraftDate.text = DayNames[5])
              => LlmDate.iso = Some(IsoStr("date", 4, 0, 0, None))
        /\ (parsed_email.sent_at = Some(MONDAY_REF)
                /\ DraftDate.text = SpaceJoin(T_next, DayNames[5]))
              => LlmDate.iso = Some(IsoStr("date", 11, 0, 0, None))

\* on a Friday, "Friday" was resolved to the Friday a week later
C5_Witness ==
    /\ Responded
    /\ parsed_email.sent_at = Some(DateTime(4, 10, 0, Some(-8)))
    /\ DraftDate.text = DayNames[5]
    /\ LlmDate.iso = Some(IsoStr("date", 11, 0, 0, None))

\* C6: for every date text and every reference instant the resolver
\* returns an instant or (None, None) and never raises, so that malformed
\* temporal text (out-of-range hour or minute digits next to a day word
\* included) never makes postprocess_triage fail.
C6_NeverRaises == Called => resp[1].t = "response"

S_lunch == <<"L","u","n","c","h">>

\* the subjects of the emails without their reply and forward prefixes
ExpectedTopic(subject) ==
    CASE subject = S_subject_re -> S_subject_plain
      [] subject = S_subject_multi -> S_lunch
      [] subject = S_subject_regarding -> S_subject_regarding

\* the zone an abbreviation names
ExpectedZone(z) ==
    CASE z = T_PT -> IANA_LA
      [] z = T_ET -> IANA_NEW_YORK
      [] z = T_UTC -> IANA_UTC

\* hour and minute a time part spells
ExpectedClock(t) ==
    CASE t = T_2pm -> <<14, 0>>
      [] t = T_2_30_pm -> <<14, 30>>
      [] t = T_14_30 -> <<14, 30>>
      [] t = T_noon -> <<12, 0>>

\* the decision carries a meeting that starts at the date written for the
\* date entity, in zone z, about the subject of the email
MeetingFromDate(z) ==
    /\ resp[1].t = "response"
    /\ LlmDate.iso # None
    /\ LlmDate.iso[1].k = "datetime"
    /\ LlmDate.iso[1].off = Some(ExpectedOffset(z, 0))
    /\ llm.entities.meeting # None
    /\ llm.entities.meeting[1].start_at = LlmDate.iso
    /\ llm.entities.meeting[1].tz = Some(ExpectedZone(z))
    /\ llm.entities.meeting[1].topic = Some(ExpectedTopic(parsed_email.subject))
    /\ resp[1].entities = llm.entities

\* C10: for a draft in the scheduling category with no meeting entity and
\* a single date entity without ISO whose text resolves with a time of day
\* and a timezone abbreviation, the decision has a meeting whose start_at
\* is the ISO datetime written for the date entity, whose tz is the zone the
\* abbreviation names and whose topic is the subject without reply and
\* forward prefixes; "Friday 2pm PT" from Monday 2024-01-29 10:00 -08:00
\* gives Friday 14:00 in America/Los_Angeles, topic "Contract approval
\* timeline".
C10_MeetingFromDate ==
    (Called /\ draft.major_category = SCHEDULE_AND_TIME /\ draft.entities.meeting = None
        /\ Len(draft.entities.dates) = 1 /\ DraftDate.iso = None) =>
        /\ \A d \in WeekdayWords \cup {T_today, T_tomorrow},
              t \in ClockTimes \cup {T_noon}, z \in {T_PT, T_ET, T_UTC} :
              DraftDate.text = Phrase(d, t, z) =>
                  /\ MeetingFromDate(z)
                  /\ LlmDate.iso[1].hour = ExpectedClock(t)[1]
                  /\ LlmDate.iso[1].minute = ExpectedClock(t)[2]
        /\ \A t \in ClockTimes, z \in {T_PT, T_ET, T_UTC} :
              DraftDate.text = Phrase(<< >>, t, z) =>
                  /\ MeetingFromDate(z)
                  /\ LlmDate.iso[1].hour = ExpectedClock(t)[1]
        /\ (parsed_email.sent_at = Some(MONDAY_REF) /\ DraftDate.text = S_friday_2pm_pt) =>
              /\ LlmDate.iso = Some(IsoStr("datetime", 4, 14, 0, Some(-8)))
              /\ llm.entities.meeting =
                    Some(MeetingRef(Some(S_subject_plain),
                                    Some(IsoStr("datetime", 4, 14, 0, Some(-8))),
                                    Some(IANA_LA)))

C10_Witness ==
    /\ Called
    /\ draft.major_category = SCHEDULE_AND_TIME
    /\ draft.entities.meeting = None
    /\ parsed_email.sent_at = Some(MONDAY_REF)
    /\ parsed_email.subject = S_subject_re
    /\ DraftDate = DateRef(S_friday_2pm_pt, None, TYPE_MEETING_TIME)
    /\ llm.entities.meeting =
          Some(MeetingRef(Some(S_subject_plain),
                          Some(IsoStr("datetime", 4, 14, 0, Some(-8))),
                          Some(IANA_LA)))

\* ------------------------------------------------------------------------
\* Properties of the recommended actions
\* ------------------------------------------------------------------------

\* the place in the draft list of the action that stands at place i now
DraftPlace(i) ==
    CHOOSE p \in DOMAIN draft_actions :
        Strip(draft_actions[p].key) = recommended_actions[i].key

\* C9: after sanitization the recommended actions are ordered by the given
\* rank, ties in their original relative order, and their ranks are exactly
\* 1, 2, ..., n in list order whatever the original ranks were; ranks
\* [5, 1, 1] become [1, 2, 3].
C9_RankedAndRenumbered ==
    Called =>
        /\ Len(recommended_actions) = Len(draft_actions)
        /\ { recommended_actions[i].key : i \in DOMAIN recommended_actions }
              = { Strip(draft_actions[p].key) : p \in DOMAIN draft_actions }
        /\ \A i \in DOMAIN recommended_actions : recommended_actions[i].rank = i
        /\ \A i, j \in DOMAIN recommended_actions :
              i < j =>
                  \/ draft_actions[DraftPlace(i)].rank < draft_actions[DraftPlace(j)].rank
                  \/ /\ draft_actions[DraftPlace(i)].rank = draft_actions[DraftPlace(j)].rank
                     /\ DraftPlace(i) < DraftPlace(j)
        /\ [i \in DOMAIN draft_actions |-> draft_actions[i].rank] = <<5, 1, 1>>
              => [i \in DOMAIN recommended_actions |-> DraftPlace(i)] = <<2, 3, 1>>

C9_Witness ==
    /\ Called
    /\ [i \in DOMAIN draft_actions |-> draft_actions[i].rank] = <<5, 1, 1>>
    /\ [i \in DOMAIN recommended_actions |-> recommended_actions[i].rank] = <<1, 2, 3>>
    /\ [i \in DOMAIN recommended_actions |-> DraftPlace(i)] = <<2, 3, 1>>

\* ------------------------------------------------------------------------
\* Properties of the call as a whole
\* ------------------------------------------------------------------------

\* C11: postprocess_triage is deterministic: the response of a call on a
\* draft, a parsed email and a reference instant is the response of every
\* other call on the same draft and email, whatever the wall clock reads,
\* the email with neither a sent_at nor an internal_date included.
C11_Deterministic ==
    runs = 1 =>
        \A now \in BaseDt(parsed_email) :
            resp = Some(Postprocess(msg, parsed_email, draft, now).resp)

\* C16: message_id and thread_id of the response are the id and the
\* threadId of the request message, an absent threadId included; nothing in
\* the inference output has a part in them.
C16_IdsFromRequest ==
    Called =>
        /\ resp[1].t = "response"
        /\ resp[1].message_id = msg.id
        /\ resp[1].thread_id = msg.threadId
        /\ resp[1].message_id \in {ID_1, ID_2}
        /\ resp[1].thread_id \in {None, Some(ID_1), Some(ID_2)}

\* a request without threadId, and a draft that names ids of its own
C16_Witness ==
    /\ Called
    /\ msg = [id |-> ID_2, threadId |-> None]
    /\ draft.reason = S_id_text
    /\ draft.evidence = <<S_id_text>>
    /\ resp[1].message_id = ID_2
    /\ resp[1].thread_id = None

\* ------------------------------------------------------------------------
\* Properties of the meeting backfill
\* ------------------------------------------------------------------------

\* the keys of the drafts whose canonical form starts with SCHEDULE_
TriggerKeys == {K_schedule_confirm, K_schedule_padded}

\* the draft is one the meeting backfill is to act on
Triggered == draft.major_category = SCHEDULE_AND_TIME \/ draft.sub_action_key \in TriggerKeys

\* C12: the meeting backfill acts if and only if the major category is
\* schedule_and_time or the canonical action key starts with "SCHEDULE_":
\* when it acts the decision has a meeting entity (one is created when the
\* draft had none), and when it does not act entities.meeting is exactly
\* the draft's, an absent one staying absent.
C12_MeetingTrigger ==
    Responded =>
        /\ Triggered <=> StartsWith(resp[1].sub_action_key, SCHEDULE_PREFIX)
                            \/ draft.major_category = SCHEDULE_AND_TIME
        /\ Triggered => llm.entities.meeting # None
        /\ ~Triggered => llm.entities.meeting = draft.entities.meeting
        /\ draft.entities.meeting = None => (llm.entities.meeting # None <=> Triggered)
        /\ resp[1].entities.meeting = llm.entities.meeting

\* outside the scheduling category, a key that only becomes SCHEDULE_MEETING
\* by canonicalization made the backfill create the meeting; and a key that
\* becomes SCHEDULE did not
C12_Witness ==
    /\ Responded
    /\ draft.major_category = "other"
    /\ draft.sub_action_key = K_schedule_padded
    /\ draft.entities.meeting = None
    /\ llm.entities.meeting # None

\* the field a meeting of the draft carries is set: neither absent nor blank
TopicSet(m) == m.topic # None /\ Strip(m.topic[1]) # << >>
StartAtSet(m) == m.start_at # None /\ m.start_at[1].k # "blank"
TzSet(m) == m.tz # None /\ Strip(m.tz[1]) # << >>

\* C13: the meeting backfill never overwrites a field of the meeting the
\* inference output populated: each of topic, start_at and tz that is
\* non-blank in the draft has the draft's value after the call.
C13_MeetingFieldsKept ==
    (Called /\ draft.entities.meeting # None) =>
        /\ llm.entities.meeting # None
        /\ TopicSet(draft.entities.meeting[1])
              => llm.entities.meeting[1].topic = draft.entities.meeting[1].topic
        /\ StartAtSet(draft.entities.meeting[1])
              => llm.entities.meeting[1].start_at = draft.entities.meeting[1].start_at
        /\ TzSet(draft.entities.meeting[1])
              => llm.entities.meeting[1].tz = draft.entities.meeting[1].tz

\* the backfill acted on a meeting with a topic and a zone of its own and
\* no start: it wrote the start and left topic and zone alone
C13_Witness ==
    /\ Responded
    /\ Triggered
    /\ draft.entities.meeting = Some(MeetingRef(Some(S_standup), None, Some(S_berlin)))
    /\ llm.entities.meeting =
          Some(MeetingRef(Some(S_standup), Some(IsoStr("datetime", 4, 14, 0, Some(-8))),
                          Some(S_berlin)))

\* ------------------------------------------------------------------------
\* Properties of the date ISO backfill
\* ------------------------------------------------------------------------

\* C14: the date ISO backfill never changes an ISO value a date entity
\* already carries (non-blank), never changes the raw text or the type of a
\* date entity, and keeps the number and the order of the date entities.
C14_DatesKept ==
    Called =>
        /\ Len(llm.entities.dates) = Len(draft.entities.dates)
        /\ \A i \in DOMAIN draft.entities.dates :
              /\ llm.entities.dates[i].text = draft.entities.dates[i].text
              /\ llm.entities.dates[i].type = draft.entities.dates[i].type
              /\ (draft.entities.dates[i].iso # None /\ draft.entities.dates[i].iso[1].k # "blank")
                    => llm.entities.dates[i].iso = draft.entities.dates[i].iso

\* an entity with an ISO value of its own, before one without: the first
\* kept its value and the second was given one
C14_Witness ==
    /\ Responded
    /\ parsed_email.sent_at = Some(MONDAY_REF)
    /\ draft.entities.dates = <<DateRef(S_friday_2pm_pt, Some(ISO_GIVEN), TYPE_MEETING_TIME),
                                DateRef(S_friday, None, TYPE_DEADLINE)>>
    /\ llm.entities.dates = <<DateRef(S_friday_2pm_pt, Some(ISO_GIVEN), TYPE_MEETING_TIME),
                              DateRef(S_friday, Some(IsoStr("date", 4, 0, 0, None)), TYPE_DEADLINE)>>

\* the texts of the date entities that resolve to a date
ResolvingTexts ==
    {S_friday_2pm_pt, S_friday, Phrase(S_friday, T_25_00, << >>), Phrase(T_today, T_noon, << >>),
     T_tomorrow}

\* C15: for each date entity without ISO value whose text resolves, the ISO
\* written is a full datetime exactly when _extract_time_components finds a
\* time of day in the raw text, and a date-only string otherwise; an entity
\* whose text does not resolve keeps its ISO absent.
C15_DatetimeIffTimeFound ==
    Responded =>
        \A i \in DOMAIN draft.entities.dates :
            (draft.entities.dates[i].iso = None \/ draft.entities.dates[i].iso[1].k = "blank") =>
                /\ draft.entities.dates[i].text \in ResolvingTexts =>
                      /\ llm.entities.dates[i].iso # None
                      /\ llm.entities.dates[i].iso[1].k =
                            IF _extract_time_components(draft.entities.dates[i].text) # None
                            THEN "datetime" ELSE "date"
                /\ draft.entities.dates[i].text = T_soon =>
                      llm.entities.dates[i].iso = draft.entities.dates[i].iso

\* the texts of the date entities that resolve with a time of day
TimedTexts == {S_friday_2pm_pt, Phrase(T_today, T_noon, << >>)}

\* the places of the draft's date entities that lack an ISO value and
\* resolve to a full datetime
TimedPlaces ==
    { i \in DOMAIN draft.entities.dates :
        /\ draft.entities.dates[i].iso = None \/ draft.entities.dates[i].iso[1].k = "blank"
        /\ draft.entities.dates[i].text \in TimedTexts }

\* the zone name the resolver gives for a text of the date entities
ZoneNameOf(text) == IF text = S_friday_2pm_pt THEN Some(IANA_LA) ELSE None

\* the meeting created by the backfill starts at the ISO value written at
\* place i, in the zone of the text at place i
BestIsPlace(i) ==
    /\ llm.entities.meeting[1].start_at = llm.entities.dates[i].iso
    /\ llm.entities.meeting[1].start_at[1].k = "datetime"
    /\ ZoneNameOf(draft.entities.dates[i].text) # None
          => llm.entities.meeting[1].tz = ZoneNameOf(draft.entities.dates[i].text)

\* C21: the instant and the zone handed from the date backfill to the
\* meeting backfill come from the first date entity, in declaration order,
\* that resolves to a full datetime; a date-only resolution never becomes
\* the best instant, a later entity never replaces an earlier best one, and
\* the zone name belongs to the entity of the best instant.  Seen on the
\* meeting the first call creates.
C21_BestFromFirstDatetime ==
    (runs = 1 /\ Responded /\ draft.entities.meeting = None) =>
        /\ llm.entities.meeting # None
        /\ TimedPlaces # {} => BestIsPlace(Min(TimedPlaces))
        /\ TimedPlaces = {} =>
              /\ llm.entities.meeting[1].start_at = None
              /\ llm.entities.meeting[1].tz = None

\* C24: whenever the meeting backfill writes meeting.start_at, the value is
\* an ISO datetime with a timezone offset, for every combination of date
\* entities, those that already carry an ISO value included.
C24_StartAtHasOffset ==
    (runs = 1 /\ Responded /\ draft.entities.meeting = None
        /\ llm.entities.meeting # None /\ llm.entities.meeting[1].start_at # None) =>
        /\ llm.entities.meeting[1].start_at[1].k = "datetime"
        /\ llm.entities.meeting[1].start_at[1].off # None

\* ------------------------------------------------------------------------
\* Properties of the reply-by inference
\* ------------------------------------------------------------------------

\* the deadline texts of the assessments that resolve
ResolvingDeadlines == {S_friday_2pm_pt, S_friday, Phrase(T_tomorrow, T_noon, << >>)}

\* C17: if the urgency assessment carries a raw deadline text and no
\* reply_by is set, the deadline text goes through the temporal resolver
\* with the email's best-known timestamp as reference and, when it resolves,
\* reply_by becomes the serialized instant; a reply_by that is set is never
\* replaced, and without a deadline text or a resolution reply_by stays
\* absent.
C17_ReplyByInferred ==
    Called =>
        /\ urgency_signals.deadline_text = draft_urgency.deadline_text
        /\ draft_urgency.reply_by # None => urgency_signals.reply_by = draft_urgency.reply_by
        /\ (draft_urgency.reply_by = None /\ draft_urgency.deadline_text # None
                /\ draft_urgency.deadline_text[1] \in ResolvingDeadlines) =>
              /\ urgency_signals.reply_by # None
              /\ urgency_signals.reply_by[1].k = "datetime"
              /\ \E b \in BaseDt(parsed_email) :
                    urgency_signals.reply_by =
                        Some(isoformat(_infer_datetime(draft_urgency.deadline_text[1], b).dt[1]))
        /\ (draft_urgency.reply_by = None
                /\ (draft_urgency.deadline_text = None
                    \/ draft_urgency.deadline_text[1] \notin ResolvingDeadlines)) =>
              urgency_signals.reply_by = None
        /\ (draft_urgency = UrgencySignals(Some(S_friday_2pm_pt), None)
                /\ parsed_email.sent_at = Some(MONDAY_REF)) =>
              urgency_signals.reply_by = Some(IsoStr("datetime", 4, 14, 0, Some(-8)))
        /\ (draft_urgency = UrgencySignals(Some(S_friday), None)
                /\ parsed_email.sent_at = None /\ parsed_email.internal_date # None) =>
              urgency_signals.reply_by = Some(IsoStr("datetime", 4, 0, 0, Some(0)))

\* "Friday 2pm PT" on the email of Monday 10:00 -08:00 gave Friday 14:00
\* -08:00
C17_Witness ==
    /\ Called
    /\ parsed_email.sent_at = Some(MONDAY_REF)
    /\ draft_urgency = UrgencySignals(Some(S_friday_2pm_pt), None)
    /\ urgency_signals.reply_by = Some(IsoStr("datetime", 4, 14, 0, Some(-8)))

\* ------------------------------------------------------------------------
\* Properties of the timezone extraction
\* ------------------------------------------------------------------------

\* a direct call of fn has returned
Returned(fn) == ret # None /\ ret[1].fn = fn

\* the fixed zone of the abbreviation AbbrevNames[i], and its UTC offset in
\* February
ZoneOfAbbrev(i) ==
    CASE i \in 1..3 -> [name |-> IANA_LA, off |-> -8]
      [] i \in 4..6 -> [name |-> IANA_DENVER, off |-> -7]
      [] i \in 7..9 -> [name |-> IANA_CHICAGO, off |-> -6]
      [] i \in 10..12 -> [name |-> IANA_NEW_YORK, off |-> -5]
      [] i \in 13..14 -> [name |-> IANA_UTC, off |-> 0]

\* _extract_timezone returned the zone z
ZoneIs(z) ==
    /\ ret[1].value.tz_name = Some(z.name)
    /\ ret[1].value.tzinfo = z.off

\* a text with one abbreviation, in upper, lower or mixed case or in
\* brackets, gives the zone of the abbreviation whatever the offset of the
\* reference instant
SingleAbbrevWins ==
    \A i \in DOMAIN AbbrevNames :
        call.text \in { ZoneText(AbbrevNames[i]), ZoneText(StrLower(AbbrevNames[i])),
                        ZoneText(Capitalized(AbbrevNames[i])),
                        ZoneText(BracketPart(AbbrevNames[i])) }
            => ZoneIs(ZoneOfAbbrev(i))

\* the outcome of _extract_timezone for a text without abbreviation
NoAbbrevOutcome ==
    CASE call.base_dt.off \in {Some(-8), Some(-7)} -> ZoneIs([name |-> IANA_LA, off |-> -8])
      [] call.base_dt.off = Some(-6) -> ZoneIs([name |-> IANA_CHICAGO, off |-> -6])
      [] call.base_dt.off = Some(-5) -> ZoneIs([name |-> IANA_NEW_YORK, off |-> -5])
      [] call.base_dt.off = Some(0) -> ZoneIs([name |-> IANA_UTC, off |-> 0])
      [] call.base_dt.off = None ->
            ret[1].value.tz_name = None /\ ret[1].value.tzinfo = 0
      [] OTHER ->
            ret[1].value.tz_name = None /\ ret[1].value.tzinfo = call.base_dt.off[1]

\* the letters of an abbreviation inside a longer word name no zone
EmbeddedIgnored ==
    \A z \in EmbeddedParts : call.text = ZoneText(z) => NoAbbrevOutcome

\* C18 as stated: a known abbreviation as a whole word, in any letter case,
\* gives the fixed zone of the abbreviation, before the offset of the
\* reference instant; of several abbreviations the one that stands first in
\* the text wins; abbreviations inside longer words do not match.
C18_FirstInTextWins ==
    Returned("_extract_timezone") =>
        /\ SingleAbbrevWins
        /\ EmbeddedIgnored
        /\ \A i, j \in DOMAIN AbbrevNames :
              call.text = ZoneText(PairPart(AbbrevNames[i], AbbrevNames[j]))
                  => ZoneIs(ZoneOfAbbrev(i))

\* C18, amended: of several abbreviations the one that stands first in the
\* table PT, PST, PDT, MT, MST, MDT, CT, CST, CDT, ET, EST, EDT, UTC, GMT
\* wins, wherever it stands in the text.
C18_FirstInTableWins ==
    Returned("_extract_timezone") =>
        /\ SingleAbbrevWins
        /\ EmbeddedIgnored
        /\ \A i, j \in DOMAIN AbbrevNames :
              call.text = ZoneText(PairPart(AbbrevNames[i], AbbrevNames[j]))
                  => ZoneIs(ZoneOfAbbrev(Min({i, j})))

\* "Friday 2pm ET or PT" with a reference instant at +01:00 gave
\* America/Los_Angeles
C18_Witness ==
    /\ Returned("_extract_timezone")
    /\ call.text = ZoneText(PairPart(AbbrevNames[10], AbbrevNames[1]))
    /\ call.base_dt.off = Some(1)
    /\ ret[1].value = [tzinfo |-> -8, tz_name |-> Some(IANA_LA)]

\* the texts of the calls without abbreviation
NoAbbrevTexts == { ZoneText(z) : z \in EmbeddedParts \cup {<< >>} }

\* _infer_datetime resolved "Friday 2pm" from Monday 10:00 in the zone of
\* offset off, named tz_name: Friday 14:00 there.  (At each offset of the
\* calls the reference instant falls on the Monday in that zone.)
ResolvedIn(off, tz_name) ==
    /\ ret[1].value.t = "ok"
    /\ ret[1].value.tz_name = tz_name
    /\ ret[1].value.dt = Some(DateTime(4, 14, 0, Some(off)))

\* the outcome of _infer_datetime for a text without abbreviation
NoAbbrevResolved ==
    CASE call.base_dt.off \in {Some(-8), Some(-7)} -> ResolvedIn(-8, Some(IANA_LA))
      [] call.base_dt.off = Some(-6) -> ResolvedIn(-6, Some(IANA_CHICAGO))
      [] call.base_dt.off = Some(-5) -> ResolvedIn(-5, Some(IANA_NEW_YORK))
      [] call.base_dt.off \in {Some(0), None} -> ResolvedIn(0, Some(IANA_UTC))
      [] OTHER -> ResolvedIn(call.base_dt.off[1], None)

\* C19: for a text without known abbreviation the timezone extraction maps
\* the UTC offset of the reference instant through the fixed table of -8,
\* -7, -6, -5 and 0 hours, each offset to one zone; for any other offset it
\* keeps the zone of the reference instant and returns no zone name; and a
\* reference instant without zone is treated as UTC.
C19_OffsetTable ==
    call.text \in NoAbbrevTexts =>
        /\ Returned("_extract_timezone") => NoAbbrevOutcome
        /\ Returned("_infer_datetime") => NoAbbrevResolved

\* a reference instant at -07:00 resolved "Friday 2pm" in
\* America/Los_Angeles
C19_Witness ==
    /\ Returned("_infer_datetime")
    /\ call.text = ZoneText(<< >>)
    /\ call.base_dt.off = Some(-7)
    /\ ret[1].value.tz_name = Some(IANA_LA)
    /\ ret[1].value.dt = Some(DateTime(4, 14, 0, Some(-8)))

\* ------------------------------------------------------------------------
\* Properties of the time-of-day extraction
\* ------------------------------------------------------------------------

\* _extract_time_components returned (h, m)
TimeIs(h, m) == ret[1].value = Some([h |-> h, m |-> m])

\* C20: the time-of-day extraction returns 12:00 for "noon", 00:00 for
\* "midnight" and 17:00 for "eod" and "end of day"; for a 12-hour match
\* H(:MM)? am|pm it returns hour 0 for 12 am, 12 for 12 pm, H + 12 for any
\* other pm hour and H for any other am hour, with minute MM or 0; for a
\* bare HH:MM it returns the value only when 0 <= HH <= 23 and
\* 0 <= MM <= 59; otherwise it returns no time.
C20_TimeOfDay ==
    Returned("_extract_time_components") =>
        /\ call.text \in NoonTexts => TimeIs(12, 0)
        /\ call.text \in MidnightTexts => TimeIs(0, 0)
        /\ call.text \in EodTexts => TimeIs(17, 0)
        /\ \A h \in Hours12, mm \in Minutes12, sp \in {<< >>, <<" ">>} :
              /\ \A ap \in AmWords :
                    call.text = Time12Text(h, mm, sp, ap) =>
                        TimeIs(IF h = 12 THEN 0 ELSE h, IF mm = None THEN 0 ELSE mm[1])
              /\ \A ap \in PmWords :
                    call.text = Time12Text(h, mm, sp, ap) =>
                        TimeIs(IF h = 12 THEN 12 ELSE h + 12, IF mm = None THEN 0 ELSE mm[1])
        /\ \A h \in Hours24, m \in Minutes24 :
              call.text = Time24Text(h, m) =>
                  IF h \in 0..23 /\ m \in 0..59 THEN TimeIs(h, m) ELSE ret[1].value = None
        /\ call.text \in NoTimeTexts => ret[1].value = None

\* "12:30 Pm" gave 12:30
C20_Witness ==
    /\ Returned("_extract_time_components")
    /\ call.text = Time12Text(12, Some(30), <<" ">>, <<"P","m">>)
    /\ ret[1].value = Some([h |-> 12, m |-> 30])

\* ------------------------------------------------------------------------
\* Properties of the meeting topic
\* ------------------------------------------------------------------------

\* s starts with re, fwd or fw and a colon, in any letter case, blanks
\* before the word and around the colon allowed
HasPrefix(s) ==
    \E w \in {<<"r","e">>, <<"f","w","d">>, <<"f","w">>} :
        \E i \in 1..(Len(s) + 1), j \in 1..(Len(s) + 1) :
            /\ \A k \in 1..(i - 1) : IsSpace(s[k])
            /\ i + Len(w) <= j
            /\ j <= Len(s)
            /\ StrLower(SubSeq(s, i, i + Len(w) - 1)) = w
            /\ \A k \in (i + Len(w))..(j - 1) : IsSpace(s[k])
            /\ s[j] = ":"

\* s has neither leading nor trailing blanks
Trimmed(s) == s = << >> \/ (~IsSpace(s[1]) /\ ~IsSpace(s[Len(s)]))

\* C22: for every subject the conversion to a meeting topic terminates and
\* returns a trimmed string that does not start with a "Re:", "Fwd:" or
\* "Fw:" prefix in any letter case: all repeated leading prefixes are
\* removed and the rest of the subject is unchanged; the conversion of its
\* own result changes nothing.
C22_TopicWithoutPrefixes ==
    Returned("_subject_to_topic") =>
        /\ Trimmed(ret[1].value)
        /\ ~HasPrefix(ret[1].value)
        /\ ret[1].value = Strip(call.rest)
        /\ _subject_to_topic(ret[1].value) = ret[1].value

\* "RE: re : Fwd:Budget: Re: Q3" gave "Budget: Re: Q3"
C22_Witness ==
    /\ Returned("_subject_to_topic")
    /\ call.text = SubjectOf(<<PrefixSpellings_RE, PrefixSpellings_re, PrefixSpellings_Fwd>>, S_budget)
    /\ ret[1].value = S_budget

\* ------------------------------------------------------------------------
\* Properties of the task type
\* ------------------------------------------------------------------------

\* C27: in every output of the postprocessor task_type is null whenever
\* explicit_task is false, and when explicit_task is true it is null or a
\* non-empty string without surrounding whitespace.
C27_TaskTypeFollowsExplicitTask ==
    Responded =>
        /\ resp[1].explicit_task = draft.explicit_task
        /\ ~resp[1].explicit_task => resp[1].task_type = None
        /\ (resp[1].explicit_task /\ resp[1].task_type # None) =>
              /\ resp[1].task_type[1] # << >>
              /\ Strip(resp[1].task_type[1]) = resp[1].task_type[1]

\* the padded task type of an explicit task is answered trimmed
C27_Witness ==
    /\ Responded
    /\ draft.explicit_task
    /\ draft.task_type = Some(S_task_padded)
    /\ resp[1].task_type = Some(S_task)

\* ------------------------------------------------------------------------
\* Properties of texts with several weekday names
\* ------------------------------------------------------------------------

\* the next day with weekday wd after the day of base, at the hour the text
\* gives, in the zone of base
NextWeekday(wd, base, hour) ==
    DateTime(base.day + ForwardDelta(wd, base.day % 7), hour, 0, base.off)

\* C29: a text with more than one weekday name (and neither "today" nor
\* "tomorrow") resolves to the weekday that comes first from Monday to
\* Sunday, wherever the names stand in the text, and to that weekday only.
C29_FirstWeekdayOfWeekWins ==
    Returned("_infer_datetime") =>
        \A ds \in DaySeqs :
            /\ call.text = DaysText(ds) =>
                  ret[1].value.dt = Some(NextWeekday(Min(Range(ds)), call.base_dt, 0))
            /\ call.text = SpaceJoin(DaysText(ds), T_2pm) =>
                  ret[1].value.dt = Some(NextWeekday(Min(Range(ds)), call.base_dt, 14))

\* on a Monday "Friday or Monday" resolved to the Monday a week later, not
\* to the Friday of the same week
C29_Witness ==
    /\ Returned("_infer_datetime")
    /\ call.text = DaysText(<<4, 0>>)
    /\ call.base_dt = DateTime(0, 10, 0, Some(-8))
    /\ ret[1].value.dt = Some(DateTime(7, 0, 0, Some(-8)))

\* ------------------------------------------------------------------------
\* Properties of the HTTP server
\* ------------------------------------------------------------------------

\* the places in the history of the records appended for request r
RecordsOf(r) == { i \in DOMAIN recorded : recorded[i].req = r }

S_failed_to_triage_colon == <<"f","a","i","l","e","d","_","t","o","_","t","r","i","a","g","e",":">>

\* C25: a triage request whose pipeline raises NotImplementedError is
\* answered with HTTP 501, one whose pipeline raises any other exception
\* with HTTP 500 and a detail that starts with "failed_to_triage:"; in both
\* cases exactly one error record for the triage endpoint is appended to
\* the recent-errors list, and a successful request appends none.
C25_ErrorsAnsweredAndRecorded ==
    \A a \in answers :
        /\ a.exc.type = "NotImplementedError" => a.answer.status = 501
        /\ a.exc.type \notin {"none", "NotImplementedError"} =>
              /\ a.answer.status = 500
              /\ StartsWith(a.answer.detail, S_failed_to_triage_colon)
        /\ a.exc # NoExc =>
              /\ Cardinality(RecordsOf(a.req)) = 1
              /\ \A i \in RecordsOf(a.req) : recorded[i].rec.endpoint = TRIAGE_PATH
        /\ a.exc = NoExc => RecordsOf(a.req) = {}

\* of two requests one returned and one ended in a ValueError, answered
\* with 500 and recorded once
C25_Witness ==
    /\ llm_provider = "openai"
    /\ \E a \in answers : a.exc = NoExc /\ a.answer.status = 200
    /\ \E a \in answers :
          /\ a.exc.type = "ValueError"
          /\ a.answer = HttpResponse(500, S_failed_to_triage \o E_hour)
          /\ Cardinality(RecordsOf(a.req)) = 1
    /\ Len(_recent_errors) = 1

\* some thread is inside the loop of _record_error
Recording == \E t \in DOMAIN threads : threads[t].pc \in {"while", "pop"}

\* the records in the order they were appended
Records == [i \in DOMAIN recorded |-> recorded[i].rec]

\* the last k elements of s
LastN(s, k) == SubSeq(s, Len(s) - k + 1, Len(s))

\* C26: after any sequence of recorded errors the buffer holds at most 50
\* records, and they are the most recently recorded ones in the order they
\* arrived: the oldest are dropped first.
C26_LastFiftyErrors ==
    ~Recording =>
        /\ Len(_recent_errors) <= _MAX_ERRORS
        /\ _recent_errors = LastN(Records, Min({Len(Records), _MAX_ERRORS}))

\* after 52 errors the buffer holds the 3rd to the 52nd
C26_Witness ==
    /\ ~Recording
    /\ Len(recorded) = _MAX_ERRORS + 2
    /\ Len(_recent_errors) = _MAX_ERRORS
    /\ _recent_errors[1].timestamp = 2
    /\ _recent_errors[_MAX_ERRORS].timestamp = _MAX_ERRORS + 1

\* every worker is outside the handler
AllIdle == \A t \in DOMAIN threads : threads[t].pc = "idle"

\* C30: after any number of triage requests that reached the handler, one
\* after the other or at the same time on several threads, both counters
\* equal the number of those requests: no increment is lost.
C30_EveryRequestCounted ==
    AllIdle =>
        /\ _request_counts.triage = requests
        /\ _request_counts.total = requests

\* ------------------------------------------------------------------------
\* Properties of the batch runner
\* ------------------------------------------------------------------------

\* the workers whose request is in flight
InFlight == { i \in DOMAIN tasks : tasks[i].pc = "post" }

\* the lines of file f that worker i wrote
LinesOf(f, i) == { k \in DOMAIN f : f[k].task = i }

\* the number of input messages after the optional limit, as Python slices
ExpectedTotal ==
    IF args.limit = None THEN Len(args.messages)
    ELSE IF args.limit[1] >= 0 THEN Min({args.limit[1], Len(args.messages)})
    ELSE Max({Len(args.messages) + args.limit[1], 0})

\* the request of worker i succeeded and its response validated
Succeeded(i) ==
    tasks[i].reply.t = "reply" /\ tasks[i].reply.status < 400 /\ tasks[i].reply.valid

\* worker i wrote one line, to the results file when its request succeeded
\* and validated and to the errors file otherwise
OneLine(i) ==
    IF Succeeded(i)
    THEN Cardinality(LinesOf(out_f, i)) = 1 /\ LinesOf(err_f, i) = {}
    ELSE Cardinality(LinesOf(err_f, i)) = 1 /\ LinesOf(out_f, i) = {}

\* C28: for any interleaving of its workers the batch runner writes exactly
\* one JSONL record per input message (after the optional limit), to the
\* results file when the request succeeded and validated and to the errors
\* file otherwise, never both and never none; at most `concurrency`
\* requests are in flight at once; the printed Succeeded plus Failed equals
\* Total.
C28_OneRecordPerMessage ==
    /\ Cardinality(InFlight) <= args.concurrency
    /\ \A i \in DOMAIN tasks :
          /\ Cardinality(LinesOf(out_f, i)) + Cardinality(LinesOf(err_f, i)) <= 1
          /\ tasks[i].pc = "done" => OneLine(i)
    /\ summary # None =>
          /\ Len(tasks) = ExpectedTotal
          /\ \A i \in DOMAIN tasks : OneLine(i)
          /\ Len(out_f) + Len(err_f) = ExpectedTotal
          /\ summary[1].total = ExpectedTotal
          /\ summary[1].ok_total = Len(out_f)
          /\ summary[1].fail_total = Len(err_f)
          /\ summary[1].ok_total + summary[1].fail_total = summary[1].total

\* three messages, two requests at a time: one triage went to the results
\* file, an HTTP error and a response that did not validate to the errors
\* file, and the summary says 1 + 2 = 3
C28_Witness ==
    /\ summary = Some(Summary(3, 1))
    /\ args.concurrency = 2
    /\ Len(out_f) = 1
    /\ Len(err_f) = 2
    /\ \E i \in DOMAIN tasks : tasks[i].reply.status = 500
    /\ \E i \in DOMAIN tasks : tasks[i].reply.status = 200 /\ ~tasks[i].reply.valid

====
